---------------------------- MODULE Spec2Model ----------------------------
(***************************************************************************)
(* Verification model of the WebServer repository (ironhxs/WebServer).     *)
(*                                                                         *)
(* The module holds four state machines over disjoint groups of variables: *)
(*   SpecQueue  block_queue<T>            include/blocking_queue.h         *)
(*   SpecPool   connection_pool           src/database/database_pool.cpp   *)
(*   SpecConn   one http_conn: read_once / process_read / write / init     *)
(*              src/http/http_connection.cpp                               *)
(*   Spec       WebServer dispatcher, threadpool workers and the timer     *)
(*              list: src/core/webserver.cpp, include/threadpool.h,        *)
(*              src/timer/timer_list.cpp                                   *)
(* Each specification leaves the variables of the other three untouched.   *)
(***************************************************************************)
EXTENDS Integers, Sequences, FiniteSets, TLC

(***************************************************************************)
(* Bounds of the model.                                                    *)
(***************************************************************************)
QCap         == 2   \* block_queue capacity (constructor argument max_size)
MaxItems     == 4   \* number of push calls explored
NConsumers   == 2   \* threads calling pop
MaxConn      == 2   \* connection_pool::init MaxConn (handles created)
NPoolThreads == 3   \* threads using the connection pool
MaxBody      == 3   \* explicit body bytes in a modelled request
HdrLen       == 3   \* bytes of a response in m_write_buf
FileLen      == 1   \* bytes of a response body sent from the second iovec
NFd          == 1   \* connection slots (descriptors) the server hands out
NWorkers     == 1   \* threadpool threads
MaxAdvance   == 3   \* number of TIMESLOT periods that pass
MaxQueue     == 2   \* threadpool max_requests
MaxTimers    == 2   \* entries the timer list may hold when a connection is accepted
NSlots       == 2   \* connection slots whose IP is counted
MaxAccepts   == 3   \* connections accepted while the IP counts are watched
MaxUploads   == 2   \* upload requests made to the site
MaxNow       == 1   \* seconds that pass while the site is watched
MaxNodes     == 3   \* util_timer objects that exist at a time
MaxExpire    == 3   \* latest expiry and latest clock value of the timer list
MaxFd        == 4   \* MAX_FD, the size of users[] and users_timer[]
NOwnFds      == 3   \* descriptors the process holds besides the connections
MaxBacklog   == 2   \* connections waiting in the listener's backlog
MaxArrivals  == 6   \* connections made to the listener
MaxEvents    == 2   \* events of other descriptors in one epoll_wait batch
MaxSignals   == 2   \* signal bytes the pipe holds when SIGTERM is sent
NThreads     == 2   \* threads of the pool
MaxTasks     == 4   \* requests handed to append
NRegThreads  == 2   \* threads that handle registration requests
MaxRegs      == 4   \* registration requests
MaxRegions   == 3   \* body regions acquired on one connection slot
BodyLen      == 2   \* bytes of a response
NLogThreads  == 2   \* threads that call write_log
LogCap       == 2   \* max_queue_size of the log queue
MaxLines     == 5   \* write_log calls

VARIABLES
    \* ---- block_queue -------------------------------------------------
    m_array,      \* ring buffer, index 0..m_max_size-1
    m_size,       \* number of stored items
    m_front,      \* index of the slot before the oldest item
    m_back,       \* index of the newest item
    cpc,          \* consumer -> "idle" | "waiting" | "woken" (pop(T &)),
                  \*             "timedwait" | "timedwoken" (pop(T &, int))
    q_pushed,     \* history: items whose push returned true, in order
    q_popped,     \* history: items returned by pop, in order
    q_lastPush,   \* history: the last push call and what it did
    q_calls,      \* number of push calls made so far
    q_timed,      \* history: consumer -> how its last pop(T &, int) ended
    q_query,      \* history: the last front or back call and its reply
    \* ---- connection_pool ---------------------------------------------
    connList,     \* list of free handles
    m_FreeConn,
    m_CurConn,
    reserve,      \* semaphore count
    ppc,          \* pool thread -> position in GetConnection / ReleaseConnection
    pcon,         \* pool thread -> handle held (0 = NULL)
    \* ---- one http_conn ------------------------------------------------
    conn,         \* the http_conn object (record of its members)
    c_wire,       \* the bytes the client sends: [explicit, pad]
    c_sent,       \* how many of them read_once has taken off the socket
    c_phase,      \* where the connection is between handler calls
    c_last,       \* history: what the last handler call did
    \* ---- the server ---------------------------------------------------
    m_actormodel, \* 1: workers do the I/O, 0: the main thread does the I/O
    users,        \* slot -> the shared members of its http_conn
    users_timer,  \* slot -> id of the util_timer users_timer[f].timer points to
    m_timer_lst,  \* sort_timer_lst from head to tail: [id, fd, expire]
    m_workqueue,  \* threadpool task list (slots)
    wk,           \* worker -> [pc, fd, ret]
    d_pc,         \* dispatcher: "epoll_wait" | "wait" (polling improv)
    d_fd,         \* the slot the dispatcher is waiting for
    now,          \* time(NULL)
    sigalrm,      \* a SIGALRM byte is in the pipe
    timeout,      \* eventLoop's timeout flag
    h_activity,   \* history: time of accept or of the last event handled
    h_wrote,      \* history: write() reported a sent non-keep-alive response
    h_closed,     \* history: how the connection in the slot was closed
    \* ---- the per-IP connection counts ---------------------------------
    ip_conn,      \* slot -> [m_sockfd, m_ip] of its http_conn
    m_ip_counts,  \* http_conn::m_ip_counts: normalized IP -> count
    ip_task,      \* slot -> the worker task on it: [pc, normalized]
    ip_close,     \* slot -> a close_conn call is between its two halves
    ip_accepts,   \* number of connections accepted so far
    \* ---- the site: uploads and their metadata -------------------------
    up_files,     \* the stored names present in doc_root/uploads
    up_meta,      \* user -> the records of uploads/.meta/<user>.list
    site_now,     \* time(nullptr), in seconds
    site_uploads, \* number of upload requests made so far
    site_last,    \* history: the last request and its response
    \* ---- sort_timer_lst with its links --------------------------------
    tl_head,      \* sort_timer_lst::head (0 = NULL)
    tl_tail,      \* sort_timer_lst::tail
    tl_nodes,     \* util_timer -> [st, expire, prev, next]
    tl_now,       \* time(NULL) at the last tick
    tl_fired,     \* history: the entries whose cb_func the last tick called
    tl_last,      \* history: the last operation on the list
    \* ---- listener and live-connection count ---------------------------
    ac_mode,      \* m_LISTENTrigmode: 0 level-triggered, 1 edge-triggered
    ac_backlog,   \* connections waiting to be accepted
    ac_event,     \* edge-triggered: a listener event is due to the dispatcher
    ac_pc,        \* where the dispatcher is
    ac_fd,        \* the descriptor the dispatcher is initialising or closing
    ac_open,      \* descriptors of the connections that are open
    m_user_count, \* http_conn::m_user_count
    ac_lock,      \* holder of http_conn::m_ip_lock
    ac_wk,        \* the worker closing a connection: [pc, fd, tmp]
    ac_arrivals,  \* connections made so far
    ac_index,     \* history: the last descriptor used as index of users[]
    \* ---- alarm and signal pipe ---------------------------------------
    sg_alarm,     \* an alarm() is pending
    sg_pipe,      \* the signal bytes in the pipe
    sg_timeout,   \* eventLoop's timeout
    sg_stop,      \* eventLoop's stop_server
    sg_pc,        \* where eventLoop is: "epoll_wait", "batch", "exit"
    sg_batch,     \* the events of the batch not handled yet
    sg_last,      \* history: the last step
    \* ---- threadpool ---------------------------------------------------
    tp_queue,     \* m_workqueue
    tp_sem,       \* the value of m_queuestat
    tp_lock,      \* holder of m_queuelocker: 0 free, -1 the appender, or a thread
    tp_pc,        \* thread -> "wait", "lock", "locked", "run"
    tp_task,      \* thread -> the request it took
    tp_app,       \* the caller of append: [pc, task]
    tp_next,      \* the next request to append
    tp_ran,       \* history: request -> times it was run
    tp_hist,      \* history: [intr, posts, accepted, rejected]
    \* ---- registration -------------------------------------------------
    reg_users,    \* the names in the users map
    reg_db,       \* the names of the rows the INSERTs added
    reg_lock,     \* holder of m_lock
    reg_th,       \* thread -> its registration: [pc, name, found, res, ins, page]
    reg_n,        \* registration requests so far
    \* ---- body region of a response -----------------------------------
    bd_open,      \* the slot's connection is open (m_sockfd != -1)
    bd_conn,      \* [m_file_address, m_is_mmap, m_php_content, bytes_to_send, m_linger]
    bd_next,      \* the number of the next region
    bd_rel,       \* history: region -> times munmap or free was called on it
    bd_last,      \* history: the last step
    \* ---- asynchronous log ---------------------------------------------
    lg_queue,     \* m_log_queue: the lines waiting
    lg_file,      \* the lines written to m_fp, in order
    lg_th,        \* logging thread -> [pc, line]
    lg_drain,     \* the line the drain thread popped and has not written, or 0
    lg_next,      \* the number of the next line
    lg_pushed     \* history: the last push, [ret, line]

qvars == <<m_array, m_size, m_front, m_back, cpc, q_pushed, q_popped, q_lastPush, q_calls,
           q_timed, q_query>>
pvars == <<connList, m_FreeConn, m_CurConn, reserve, ppc, pcon>>
cvars == <<conn, c_wire, c_sent, c_phase, c_last>>
svars == <<m_actormodel, users, users_timer, m_timer_lst, m_workqueue, wk, d_pc,
           d_fd, now, sigalrm, timeout, h_activity, h_wrote, h_closed>>
ivars == <<ip_conn, m_ip_counts, ip_task, ip_close, ip_accepts>>
uvars == <<up_files, up_meta, site_now, site_uploads, site_last>>
tvars == <<tl_head, tl_tail, tl_nodes, tl_now, tl_fired, tl_last>>
avars == <<ac_mode, ac_backlog, ac_event, ac_pc, ac_fd, ac_open, m_user_count, ac_lock,
           ac_wk, ac_arrivals, ac_index>>
gvars == <<sg_alarm, sg_pipe, sg_timeout, sg_stop, sg_pc, sg_batch, sg_last>>
wvars == <<tp_queue, tp_sem, tp_lock, tp_pc, tp_task, tp_app, tp_next, tp_ran, tp_hist>>
rvars == <<reg_users, reg_db, reg_lock, reg_th, reg_n>>
bvars == <<bd_open, bd_conn, bd_next, bd_rel, bd_last>>
lvars == <<lg_queue, lg_file, lg_th, lg_drain, lg_next, lg_pushed>>
yvars == <<avars, gvars, wvars, rvars, bvars, lvars>>
xvars == <<ivars, uvars, tvars, yvars>>
vars  == <<qvars, pvars, cvars, svars, xvars>>
others == <<qvars, pvars, cvars, xvars>>

(***************************************************************************)
(* block_queue<T>  (include/blocking_queue.h)                              *)
(* Every member function runs between m_mutex.lock() and m_mutex.unlock(), *)
(* so each is one atomic step; pop is split where m_cond.wait releases the *)
(* mutex.                                                                  *)
(***************************************************************************)
m_max_size == QCap
Consumers  == 1..NConsumers

\* the stored items, oldest first, read off the ring as pop would read them
RECURSIVE RingItems(_, _, _)
RingItems(arr, front, n) ==
    IF n = 0 THEN <<>>
    ELSE LET i == (front + 1) % m_max_size
         IN  <<arr[i]>> \o RingItems(arr, i, n - 1)

QueueContents == RingItems(m_array, m_front, m_size)

QInit ==
    /\ m_array = [i \in 0..(m_max_size - 1) |-> 0]
    /\ m_size = 0
    /\ m_front = -1
    /\ m_back = -1
    /\ cpc = [c \in Consumers |-> "idle"]
    /\ q_pushed = <<>>
    /\ q_popped = <<>>
    /\ q_lastPush = [item |-> 0, full |-> FALSE, ret |-> FALSE,
                     before |-> <<>>, after |-> <<>>]
    /\ q_calls = 0
    /\ q_timed = [c \in Consumers |-> "none"]
    /\ q_query = [op |-> "none", ok |-> FALSE, value |-> 0, contents |-> <<>>]

\* push: the test that rejects an item
PushFullMutant == m_size > m_max_size
PushFull == m_size >= m_max_size

\* pop: the slot the item is taken from
PopIndexMutant == m_back
PopIndex == (m_front + 1) % m_max_size

\* m_cond.broadcast(): every waiting consumer is made runnable
Broadcast ==
    [c \in Consumers |-> CASE cpc[c] = "waiting"   -> "woken"
                          [] cpc[c] = "timedwait" -> "timedwoken"
                          [] OTHER                -> cpc[c]]

push(item) ==
    /\ q_calls < MaxItems
    /\ q_calls' = q_calls + 1
    /\ IF PushFull
       THEN /\ cpc' = Broadcast
            /\ UNCHANGED <<m_array, m_size, m_front, m_back, q_pushed>>
            /\ q_lastPush' = [item |-> item, full |-> m_size = m_max_size, ret |-> FALSE,
                              before |-> QueueContents, after |-> QueueContents]
       ELSE LET b == (m_back + 1) % m_max_size
                arr == [m_array EXCEPT ![b] = item]
            IN  /\ m_back' = b
                /\ m_array' = arr
                /\ m_size' = m_size + 1
                /\ cpc' = Broadcast
                /\ q_pushed' = Append(q_pushed, item)
                /\ UNCHANGED m_front
                /\ q_lastPush' = [item |-> item, full |-> m_size = m_max_size, ret |-> TRUE,
                                  before |-> QueueContents,
                                  after |-> RingItems(arr, m_front, m_size + 1)]
    /\ UNCHANGED <<q_popped, q_timed, q_query>>

\* the part of pop after the wait loop: remove and return the head
PopTake(c, next) ==
    /\ m_front' = PopIndex
    /\ q_popped' = Append(q_popped, m_array[PopIndex])
    /\ m_size' = m_size - 1
    /\ cpc' = [cpc EXCEPT ![c] = next]
    /\ UNCHANGED <<m_array, m_back>>

\* pop(T &item): entered with the mutex; either takes an item or waits
pop(c) ==
    /\ cpc[c] = "idle"
    /\ IF m_size <= 0
       THEN /\ cpc' = [cpc EXCEPT ![c] = "waiting"]
            /\ UNCHANGED <<m_array, m_size, m_front, m_back, q_popped>>
       ELSE PopTake(c, "idle")
    /\ UNCHANGED <<q_pushed, q_lastPush, q_calls, q_timed, q_query>>

\* pthread_cond_wait and pthread_cond_timedwait may return without a
\* broadcast
SpuriousWakeup(c) ==
    /\ cpc[c] \in {"waiting", "timedwait"}
    /\ cpc' = [cpc EXCEPT ![c] = IF cpc[c] = "waiting" THEN "woken" ELSE "timedwoken"]
    /\ UNCHANGED <<m_array, m_size, m_front, m_back, q_pushed, q_popped, q_lastPush, q_calls,
                   q_timed, q_query>>

\* pop after m_cond.wait returned with the mutex: the while loop re-tests m_size
popResume(c) ==
    /\ cpc[c] = "woken"
    /\ IF m_size <= 0
       THEN /\ cpc' = [cpc EXCEPT ![c] = "waiting"]
            /\ UNCHANGED <<m_array, m_size, m_front, m_back, q_popped>>
       ELSE PopTake(c, "idle")
    /\ UNCHANGED <<q_pushed, q_lastPush, q_calls, q_timed, q_query>>

\* pop(T &item, int ms_timeout): entered with the mutex; either takes an
\* item or waits in m_cond.timewait
pop_timed(c) ==
    /\ cpc[c] = "idle"
    /\ IF m_size <= 0
       THEN /\ cpc' = [cpc EXCEPT ![c] = "timedwait"]
            /\ UNCHANGED <<m_array, m_size, m_front, m_back, q_popped, q_timed>>
       ELSE /\ PopTake(c, "idle")
            /\ q_timed' = [q_timed EXCEPT ![c] = "item"]
    /\ UNCHANGED <<q_pushed, q_lastPush, q_calls, q_query>>

\* pop(T &, int): timewait returned false, the deadline has passed
pop_timed_expired(c) ==
    /\ cpc[c] = "timedwait"
    /\ cpc' = [cpc EXCEPT ![c] = "idle"]
    /\ q_timed' = [q_timed EXCEPT ![c] = "expired"]
    /\ UNCHANGED <<m_array, m_size, m_front, m_back, q_pushed, q_popped, q_lastPush, q_calls,
                   q_query>>

\* pop(T &, int): timewait returned true before the deadline; m_size is
\* tested once more
pop_timed_resume(c) ==
    /\ cpc[c] = "timedwoken"
    /\ IF m_size <= 0
       THEN /\ cpc' = [cpc EXCEPT ![c] = "idle"]
            /\ q_timed' = [q_timed EXCEPT ![c] = "early"]
            /\ UNCHANGED <<m_array, m_size, m_front, m_back, q_popped>>
       ELSE /\ PopTake(c, "idle")
            /\ q_timed' = [q_timed EXCEPT ![c] = "item"]
    /\ UNCHANGED <<q_pushed, q_lastPush, q_calls, q_query>>

\* the values a read of m_array may give; an index outside 0..m_max_size-1
\* reads whatever lies next to the array
ArrayRead(i) ==
    IF i \in 0..(m_max_size - 1) THEN {m_array[i]} ELSE 0..MaxItems

\* front(T &value)
front ==
    /\ IF m_size = 0
       THEN q_query' = [op |-> "front", ok |-> FALSE, value |-> 0, contents |-> <<>>]
       ELSE \E v \in ArrayRead(m_front) :
                q_query' = [op |-> "front", ok |-> TRUE, value |-> v,
                            contents |-> QueueContents]
    /\ UNCHANGED <<m_array, m_size, m_front, m_back, cpc, q_pushed, q_popped, q_lastPush,
                   q_calls, q_timed>>

\* back(T &value)
back ==
    /\ IF m_size = 0
       THEN q_query' = [op |-> "back", ok |-> FALSE, value |-> 0, contents |-> <<>>]
       ELSE \E v \in ArrayRead(m_back) :
                q_query' = [op |-> "back", ok |-> TRUE, value |-> v,
                            contents |-> QueueContents]
    /\ UNCHANGED <<m_array, m_size, m_front, m_back, cpc, q_pushed, q_popped, q_lastPush,
                   q_calls, q_timed>>

QNext ==
    \/ /\ push(q_calls + 1)
       /\ UNCHANGED <<pvars, cvars, svars, xvars>>
    \/ /\ \E c \in Consumers : pop(c)
       /\ UNCHANGED <<pvars, cvars, svars, xvars>>
    \/ /\ \E c \in Consumers : SpuriousWakeup(c)
       /\ UNCHANGED <<pvars, cvars, svars, xvars>>
    \/ /\ \E c \in Consumers : popResume(c)
       /\ UNCHANGED <<pvars, cvars, svars, xvars>>
    \/ /\ \E c \in Consumers : pop_timed(c)
       /\ UNCHANGED <<pvars, cvars, svars, xvars>>
    \/ /\ \E c \in Consumers : pop_timed_expired(c)
       /\ UNCHANGED <<pvars, cvars, svars, xvars>>
    \/ /\ \E c \in Consumers : pop_timed_resume(c)
       /\ UNCHANGED <<pvars, cvars, svars, xvars>>
    \/ /\ front
       /\ UNCHANGED <<pvars, cvars, svars, xvars>>
    \/ /\ back
       /\ UNCHANGED <<pvars, cvars, svars, xvars>>

(***************************************************************************)
(* connection_pool  (src/database/database_pool.cpp)                       *)
(***************************************************************************)
PoolThreads == 1..NPoolThreads
Handles     == 1..MaxConn
NULL        == 0

RECURSIVE SeqOfRange(_, _)
SeqOfRange(a, b) == IF a > b THEN <<>> ELSE <<a>> \o SeqOfRange(a + 1, b)

\* state after connection_pool::init(..., MaxConn, ...)
PInit ==
    /\ connList = SeqOfRange(1, MaxConn)
    /\ m_FreeConn = MaxConn
    /\ m_CurConn = 0
    /\ reserve = MaxConn
    /\ ppc = [t \in PoolThreads |-> "out"]
    /\ pcon = [t \in PoolThreads |-> NULL]

\* GetConnection, first statement: if (0 == connList.size()) return NULL;
GetConnectionEmpty == Len(connList) = 0

GetConnection_check(t) ==
    /\ ppc[t] = "out"
    /\ IF GetConnectionEmpty
       THEN ppc' = [ppc EXCEPT ![t] = "gotnull"]
       ELSE ppc' = [ppc EXCEPT ![t] = "semwait"]
    /\ UNCHANGED <<connList, m_FreeConn, m_CurConn, reserve, pcon>>

\* reserve.wait(): blocks while the count is 0
GetConnection_wait(t) ==
    /\ ppc[t] = "semwait"
    /\ reserve > 0
    /\ reserve' = reserve - 1
    /\ ppc' = [ppc EXCEPT ![t] = "locked"]
    /\ UNCHANGED <<connList, m_FreeConn, m_CurConn, pcon>>

\* lock.lock(); con = connList.front(); pop_front(); counters; unlock; return con
GetConnection_take(t) ==
    /\ ppc[t] = "locked"
    /\ Len(connList) > 0
    /\ pcon' = [pcon EXCEPT ![t] = Head(connList)]
    /\ connList' = Tail(connList)
    /\ m_FreeConn' = m_FreeConn - 1
    /\ m_CurConn' = m_CurConn + 1
    /\ ppc' = [ppc EXCEPT ![t] = "holding"]
    /\ UNCHANGED reserve

\* ReleaseConnection(con): NULL is refused; else push_back under the lock
ReleaseConnection_push(t) ==
    /\ ppc[t] \in {"holding", "gotnull"}
    /\ IF pcon[t] = NULL
       THEN /\ ppc' = [ppc EXCEPT ![t] = "out"]
            /\ UNCHANGED <<connList, m_FreeConn, m_CurConn, pcon>>
       ELSE /\ connList' = Append(connList, pcon[t])
            /\ m_FreeConn' = m_FreeConn + 1
            /\ m_CurConn' = m_CurConn - 1
            /\ pcon' = [pcon EXCEPT ![t] = NULL]
            /\ ppc' = [ppc EXCEPT ![t] = "post"]
    /\ UNCHANGED reserve

\* reserve.post()
ReleaseConnection_post(t) ==
    /\ ppc[t] = "post"
    /\ reserve' = reserve + 1
    /\ ppc' = [ppc EXCEPT ![t] = "out"]
    /\ UNCHANGED <<connList, m_FreeConn, m_CurConn, pcon>>

PNext ==
    \/ /\ \E t \in PoolThreads : GetConnection_check(t)
       /\ UNCHANGED <<qvars, cvars, svars, xvars>>
    \/ /\ \E t \in PoolThreads : GetConnection_wait(t)
       /\ UNCHANGED <<qvars, cvars, svars, xvars>>
    \/ /\ \E t \in PoolThreads : GetConnection_take(t)
       /\ UNCHANGED <<qvars, cvars, svars, xvars>>
    \/ /\ \E t \in PoolThreads : ReleaseConnection_push(t)
       /\ UNCHANGED <<qvars, cvars, svars, xvars>>
    \/ /\ \E t \in PoolThreads : ReleaseConnection_post(t)
       /\ UNCHANGED <<qvars, cvars, svars, xvars>>

(***************************************************************************)
(* http_conn  (src/http/http_connection.cpp)                               *)
(*                                                                         *)
(* Bytes are symbols.  "CR", "LF" and "NUL" are themselves; "a" is any     *)
(* other byte.  A few symbols stand for a fixed run of ordinary bytes:     *)
(*   "G"  the text  GET /x HTTP/1.1        "P"  the text  POST /2 HTTP/1.1 *)
(*   "K"  the text  Connection: keep-alive "L"  the text  Content-Length:  *)
(*   "E"  the text  Expect: 100-continue                                   *)
(*   "3", "Mid", "Max", "Over"  the decimal numbers 3, 2 * READ_BUFFER_SIZE,*)
(*        kMaxBodySize and kMaxBodySize + 1                                *)
(*   "Neg", "Zero"  the texts -5 and 0                                     *)
(* m_read_buf is kept as its explicit bytes (buf), followed by `pad`       *)
(* ordinary bytes, followed by '\0' up to size.                            *)
(***************************************************************************)
READ_BUFFER_SIZE == 10485760
kMaxBodySize     == 209715200
MaxReadBuf       == kMaxBodySize + 4096

Min(a, b) == IF a < b THEN a ELSE b

SeqsUpTo(S, n) == UNION {[1..k -> S] : k \in 0..n}

CRLF == <<"CR", "LF">>

\* the requests a client may send
HeaderLines  == {<<"K">>, <<"L", "3">>, <<"a">>}
HeaderBlocks ==
    {<<>>} \cup {h \o CRLF : h \in HeaderLines}
           \cup {h1 \o CRLF \o h2 \o CRLF : h1, h2 \in HeaderLines}
BodyBytes    == {"a", "CR", "LF"}
\* bodies in which every LF follows a CR
Bodies ==
    {b \in SeqsUpTo(BodyBytes, MaxBody) :
        \A i \in 1..Len(b) : b[i] = "LF" => (i > 1 /\ b[i - 1] = "CR")}
PadBytes     == MaxReadBuf + 4096
\* the Content-Length values sent, and the header lines sent with them
Numbers      == {"3", "Mid", "Max", "Over"}
OtherHeaders == {<<>>, <<"K">> \o CRLF, <<"E">> \o CRLF}
Wires ==
    {[explicit |-> r \o e, pad |-> 0] :
        r \in {<<"G">>, <<"P">>, <<"a">>, <<>>},
        e \in {CRLF \o CRLF, <<"LF">>, <<"CR", "a">>, <<"CR">>}}
    \cup
    {[explicit |-> <<"P">> \o CRLF \o hb \o CRLF \o b, pad |-> 0] :
        hb \in HeaderBlocks, b \in Bodies}
    \cup
    {[explicit |-> <<"P">> \o CRLF \o h, pad |-> PadBytes] :
        h \in {<<>>, <<"L", "3">> \o CRLF \o CRLF, CRLF}}
    \cup
    {[explicit |-> <<"P">> \o CRLF \o pre \o <<"L", n>> \o CRLF \o post \o CRLF,
      pad |-> 0] :
        pre \in OtherHeaders, n \in Numbers, post \in OtherHeaders}
    \cup
    {[explicit |-> <<"P">> \o CRLF \o <<"K">> \o CRLF \o <<"L", n>> \o CRLF \o CRLF,
      pad |-> MaxBody] :
        n \in {"3", "Over"}}
    \cup
    {[explicit |-> <<"P">> \o CRLF \o <<"L", n>> \o CRLF \o CRLF \o b, pad |-> 0] :
        n \in {"Neg", "Zero", "a"}, b \in {<<>>, <<"a">>}}
    \cup
    {[explicit |-> <<"P">> \o CRLF \o <<"K">> \o CRLF \o <<"L", "Mid">> \o CRLF \o CRLF,
      pad |-> 2 * READ_BUFFER_SIZE]}

\* a default-constructed http_conn whose init() has not run
NoConn ==
    [m_sockfd |-> -1, ev |-> "NONE",
     buf |-> <<>>, pad |-> 0, size |-> 0,
     m_read_idx |-> 0, m_checked_idx |-> 0, m_start_line |-> 0,
     m_check_state |-> "REQUESTLINE", m_method |-> "GET", cgi |-> 0,
     m_linger |-> FALSE, m_content_length |-> 0, m_string |-> -1,
     m_response_status |-> 200, code |-> "NONE", nul_at |-> -1,
     m_write_idx |-> 0, bytes_to_send |-> 0, bytes_have_send |-> 0,
     iv0_base |-> 0, iv0_len |-> 0, iv1_base |-> 0, iv1_len |-> 0,
     m_iv_count |-> 0, body_len |-> 0,
     len_idx |-> -1, len_before |-> 0, len_after |-> 0,
     continue_sent |-> FALSE, status_line |-> 0, sent |-> <<>>]

CInit ==
    /\ conn = NoConn
    /\ c_wire = [explicit |-> <<>>, pad |-> 0]
    /\ c_sent = 0
    /\ c_phase = "closed"
    /\ c_last = "none"

\* init() that leaves m_checked_idx as it is
initMutant(c) ==
    [c EXCEPT !.bytes_to_send = 0, !.bytes_have_send = 0,
              !.m_check_state = "REQUESTLINE", !.m_linger = FALSE,
              !.m_method = "GET", !.m_content_length = 0,
              !.m_start_line = 0, !.m_read_idx = 0,
              !.m_write_idx = 0, !.body_len = 0, !.m_response_status = 200,
              !.cgi = 0,
              !.buf = <<>>, !.pad = 0, !.size = READ_BUFFER_SIZE,
              !.len_idx = -1, !.len_before = 0, !.len_after = 0,
              !.continue_sent = FALSE, !.status_line = 0, !.sent = <<>>]

\* http_conn::init(): the per-request reset
init(c) ==
    [c EXCEPT !.bytes_to_send = 0, !.bytes_have_send = 0,
              !.m_check_state = "REQUESTLINE", !.m_linger = FALSE,
              !.m_method = "GET", !.m_content_length = 0,
              !.m_start_line = 0, !.m_checked_idx = 0, !.m_read_idx = 0,
              !.m_write_idx = 0, !.body_len = 0, !.m_response_status = 200,
              !.cgi = 0,
              !.buf = <<>>, !.pad = 0, !.size = READ_BUFFER_SIZE,
              !.len_idx = -1, !.len_before = 0, !.len_after = 0,
              !.continue_sent = FALSE, !.status_line = 0, !.sent = <<>>]

\* http_conn::init(sockfd, addr, ...): addfd(..., one_shot) registers EPOLLIN
init_conn(c) == init([c EXCEPT !.m_sockfd = 1, !.ev = "IN"])

\* m_read_buf[i]
ByteAt(c, i) ==
    IF i < 0 THEN "NUL"
    ELSE IF i < Len(c.buf) THEN c.buf[i + 1]
    ELSE IF i < c.m_read_idx THEN "a"
    ELSE "NUL"

\* m_read_buf[i] = '\0' (only the explicit bytes are stored)
PutNul(c, i) ==
    IF i >= 0 /\ i < Len(c.buf) THEN [c EXCEPT !.buf[i + 1] = "NUL"] ELSE c

\* the C string that starts at m_read_buf[i]
RECURSIVE Text(_, _)
Text(c, i) ==
    IF i >= Len(c.buf) \/ c.buf[i + 1] = "NUL" THEN <<>>
    ELSE <<c.buf[i + 1]>> \o Text(c, i + 1)

\* grow_read_buffer without its upper limit
GrowNextMutant(current) ==
    LET dbl == current * 2
    IN  IF dbl < current + 4096 THEN current + 4096 ELSE dbl

\* read_once: grow_read_buffer's next size
GrowNext(current) ==
    LET dbl  == current * 2
        next == IF dbl < current + 4096 THEN current + 4096 ELSE dbl
    IN  IF next > MaxReadBuf THEN MaxReadBuf ELSE next

\* read_once: how many bytes one recv may store (RecvRoomMutant: recv is
\* given the whole buffer size)
RecvRoomMutant(idx, size) == size
RecvRoom(idx, size) == size - idx

\* read_once's loop with `avail` bytes waiting in the socket, then EAGAIN
RECURSIVE ReadLoop(_, _, _)
ReadLoop(idx, size, avail) ==
    IF idx >= size
    THEN IF size >= MaxReadBuf
         THEN [ok |-> FALSE, idx |-> idx, size |-> size]
         ELSE ReadLoop(idx, GrowNext(size), avail)
    ELSE IF avail = 0
         THEN [ok |-> TRUE, idx |-> idx, size |-> size]
         ELSE LET n == Min(avail, RecvRoom(idx, size))
              IN  ReadLoop(idx + n, size, avail - n)

\* read_once with the bytes `bs` followed by `np` pad bytes waiting
read_once(c, bs, np) ==
    LET r    == ReadLoop(c.m_read_idx, c.size, Len(bs) + np)
        got  == r.idx - c.m_read_idx
        gotx == Min(got, Len(bs))
    IN  [ok |-> r.ok,
         c  |-> [c EXCEPT !.m_read_idx = r.idx, !.size = r.size,
                          !.buf = c.buf \o SubSeq(bs, 1, gotx),
                          !.pad = c.pad + (got - gotx)]]

\* parse_line: scan from m_checked_idx for the end of a line
RECURSIVE parse_line(_)
parse_line(c) ==
    IF c.m_checked_idx >= c.m_read_idx
    THEN [status |-> "LINE_OPEN", c |-> c]
    ELSE IF c.m_checked_idx >= Len(c.buf)
    THEN \* only ordinary bytes are left: the for loop runs to m_read_idx
         [status |-> "LINE_OPEN", c |-> [c EXCEPT !.m_checked_idx = c.m_read_idx]]
    ELSE
    LET i    == c.m_checked_idx
        temp == ByteAt(c, i)
    IN  IF temp = "CR"
        THEN IF i + 1 = c.m_read_idx
             THEN [status |-> "LINE_OPEN", c |-> c]
             ELSE IF ByteAt(c, i + 1) = "LF"
             THEN [status |-> "LINE_OK",
                   c |-> [PutNul(PutNul(c, i), i + 1) EXCEPT !.m_checked_idx = i + 2]]
             ELSE [status |-> "LINE_BAD", c |-> c]
        ELSE IF temp = "LF"
        THEN IF i > 1 /\ ByteAt(c, i - 1) = "CR"
             THEN [status |-> "LINE_OK",
                   c |-> [PutNul(PutNul(c, i - 1), i) EXCEPT !.m_checked_idx = i + 1]]
             ELSE [status |-> "LINE_BAD", c |-> c]
        ELSE parse_line([c EXCEPT !.m_checked_idx = i + 1])

\* parse_request_line: METHOD SP URL SP HTTP/1.1
parse_request_line(c, text) ==
    IF text = <<"G">>
    THEN [c EXCEPT !.m_method = "GET", !.m_check_state = "HEADER", !.code = "NO_REQUEST"]
    ELSE IF text = <<"P">>
    THEN [c EXCEPT !.m_method = "POST", !.cgi = 1, !.m_check_state = "HEADER",
                   !.code = "NO_REQUEST"]
    ELSE [c EXCEPT !.code = "BAD_REQUEST"]

\* atol of the text after "Content-Length:"
atol(t) ==
    IF t = <<>> THEN 0
    ELSE CASE Head(t) = "3"    -> 3
           [] Head(t) = "Mid"  -> READ_BUFFER_SIZE * 2
           [] Head(t) = "Max"  -> kMaxBodySize
           [] Head(t) = "Over" -> kMaxBodySize + 1
           [] Head(t) = "Neg"  -> -5
           [] OTHER            -> 0

\* parse_headers, Content-Length branch: the size the read buffer must have
\* (static_cast<size_t> of a negative length is a huge number, and adding
\* 4096 to it wraps around when the length is -4096 or more)
HeaderNeeded(len) ==
    IF len < -4096 THEN READ_BUFFER_SIZE * 2
    ELSE Min(len + 4096, READ_BUFFER_SIZE * 2)

\* parse_headers, Content-Length branch: resize only when more is needed
ResizeTo(needed, size) == IF needed > size THEN needed ELSE size

\* parse_headers(text): one header line, or the blank line that ends them.
\* len_idx, len_before, len_after record the parse cursor and the buffer
\* size around the last Content-Length line; continue_sent records the
\* send() of the interim response
parse_headers(c, text) ==
    IF text = <<>>
    THEN IF c.m_content_length # 0
         THEN [c EXCEPT !.m_check_state = "CONTENT", !.code = "NO_REQUEST"]
         ELSE [c EXCEPT !.code = "GET_REQUEST"]
    ELSE IF text = <<"K">>
    THEN [c EXCEPT !.m_linger = TRUE, !.code = "NO_REQUEST"]
    ELSE IF Head(text) = "L"
    THEN LET len == atol(Tail(text))
         IN  IF len > kMaxBodySize
             THEN [c EXCEPT !.m_content_length = len, !.m_response_status = 413,
                            !.len_idx = c.m_checked_idx, !.len_before = c.size,
                            !.len_after = c.size,
                            !.code = "DYNAMIC_REQUEST"]
             ELSE [c EXCEPT !.m_content_length = len,
                            !.size = ResizeTo(HeaderNeeded(len), c.size),
                            !.len_idx = c.m_checked_idx, !.len_before = c.size,
                            !.len_after = ResizeTo(HeaderNeeded(len), c.size),
                            !.code = "NO_REQUEST"]
    ELSE IF text = <<"E">>
    THEN [c EXCEPT !.continue_sent = TRUE, !.code = "NO_REQUEST"]
    ELSE [c EXCEPT !.code = "NO_REQUEST"]

\* parse_content(text): the body is complete once m_read_idx reaches
\* m_start_line + m_content_length; text[m_content_length] = '\0'
parse_content(c, text) ==
    IF c.m_read_idx >= c.m_start_line + c.m_content_length
    THEN [PutNul(c, text + c.m_content_length)
             EXCEPT !.nul_at = text + c.m_content_length,
                    !.m_string = text, !.code = "GET_REQUEST"]
    ELSE [c EXCEPT !.code = "NO_REQUEST"]

\* do_request: the router; which response it picks is not modelled, the
\* request it was given (the parsed members of c) is
do_request(c) == [c EXCEPT !.code = "FILE_REQUEST"]

\* process_read: the while loop, entered with line_status = ls
RECURSIVE process_read_loop(_, _)
process_read_loop(c, ls) ==
    LET pl == IF c.m_check_state = "CONTENT" /\ ls = "LINE_OK"
              THEN [status |-> "LINE_OK", c |-> c]
              ELSE parse_line(c)
    IN  IF pl.status # "LINE_OK"
        THEN [pl.c EXCEPT !.code = "NO_REQUEST"]
        ELSE
        LET text == pl.c.m_start_line
            c1   == [pl.c EXCEPT !.m_start_line = pl.c.m_checked_idx]
        IN  CASE c1.m_check_state = "REQUESTLINE" ->
                   LET r == parse_request_line(c1, Text(c1, text))
                   IN  IF r.code = "BAD_REQUEST" THEN r
                       ELSE process_read_loop(r, "LINE_OK")
              [] c1.m_check_state = "HEADER" ->
                   LET r == parse_headers(c1, Text(c1, text))
                   IN  IF r.code = "DYNAMIC_REQUEST" THEN r
                       ELSE IF r.code = "GET_REQUEST" THEN do_request(r)
                       ELSE process_read_loop(r, "LINE_OK")
              [] OTHER ->
                   LET r == parse_content(c1, text)
                   IN  IF r.code = "GET_REQUEST" THEN do_request(r)
                       ELSE process_read_loop(r, "LINE_OPEN")

process_read(c) ==
    IF c.m_check_state = "CONTENT" /\ c.m_content_length > 0
    THEN LET r == parse_content(c, c.m_start_line)
         IN  IF r.code = "GET_REQUEST" THEN do_request(r)
             ELSE [r EXCEPT !.code = "NO_REQUEST"]
    ELSE process_read_loop(c, "LINE_OK")

\* modfd(m_epollfd, m_sockfd, ev, ...): re-arm the one-shot registration
modfd(c, ev) == [c EXCEPT !.ev = ev]

\* close_conn(real_close = true): removefd and forget the descriptor
close_conn(c) ==
    IF c.m_sockfd # -1 THEN [c EXCEPT !.ev = "NONE", !.m_sockfd = -1] ELSE c

\* process_write: the status code of add_status_line for each HTTP_CODE
StatusOf(c) ==
    CASE c.code = "INTERNAL_ERROR"    -> 500
      [] c.code = "BAD_REQUEST"       -> 400
      [] c.code = "NO_RESOURCE"       -> 404
      [] c.code = "FORBIDDEN_REQUEST" -> 403
      [] c.code = "DYNAMIC_REQUEST"   -> c.m_response_status
      [] OTHER                        -> 200

\* process_write(ret): lay the response out in m_write_buf and m_iv.
\* fits: whether add_content still finds room in m_write_buf;
\* flen: the size of the file (or dynamic body) to send after the headers.
\* A dynamic response has no add_content call and cannot fail
process_write(c, fits, flen) ==
    IF c.code \in {"FILE_REQUEST", "DYNAMIC_REQUEST"} /\ flen # 0
    THEN [ok |-> TRUE,
          c  |-> [c EXCEPT !.m_write_idx = HdrLen,
                           !.status_line = StatusOf(c),
                           !.iv0_base = 0, !.iv0_len = HdrLen,
                           !.iv1_base = 0, !.iv1_len = flen,
                           !.m_iv_count = 2, !.body_len = flen,
                           !.bytes_to_send = HdrLen + flen]]
    ELSE IF ~fits /\ c.code # "DYNAMIC_REQUEST"
    THEN [ok |-> FALSE, c |-> [c EXCEPT !.m_write_idx = HdrLen,
                                        !.status_line = StatusOf(c)]]
    ELSE [ok |-> TRUE,
          c  |-> [c EXCEPT !.m_write_idx = HdrLen,
                           !.status_line = StatusOf(c),
                           !.iv0_base = 0, !.iv0_len = HdrLen,
                           !.m_iv_count = 1,
                           !.bytes_to_send = HdrLen]]

\* process(): parse what has been read, then either wait for more bytes,
\* or build the response and wait for the socket to become writable
process(c, fits, flen) ==
    LET r == process_read(c)
    IN  IF r.code = "NO_REQUEST"
        THEN [c |-> modfd(r, "IN"), last |-> "read_more"]
        ELSE LET w == process_write(r, fits, flen)
             IN  IF ~w.ok
                 THEN [c |-> close_conn(w.c), last |-> "resp_fail"]
                 ELSE [c |-> modfd(w.c, "OUT"), last |-> "read_resp"]

\* writev(m_sockfd, m_iv, m_iv_count) returning n: the bytes it puts on the
\* wire, each as the region it is read from ("h": m_write_buf, "f":
\* m_file_address) and its offset there
Taken(c, n) ==
    LET n0 == Min(n, c.iv0_len)
    IN  [k \in 1..n |-> IF k <= n0
                        THEN [r |-> "h", i |-> c.iv0_base + k - 1]
                        ELSE [r |-> "f", i |-> c.iv1_base + (k - n0) - 1]]

\* write(): the bookkeeping after writev has sent n bytes; sent records
\* the bytes put on the wire
AfterWritev(c, n) ==
    LET have == c.bytes_have_send + n
        left == c.bytes_to_send - n
        c1   == [c EXCEPT !.bytes_have_send = have, !.bytes_to_send = left,
                          !.sent = c.sent \o Taken(c, n)]
    IN  IF have >= c.iv0_len
        THEN [c1 EXCEPT !.iv0_len = 0,
                        !.iv1_base = have - c.m_write_idx,
                        !.iv1_len = left]
        ELSE [c1 EXCEPT !.iv0_base = have,
                        !.iv0_len = c.iv0_len - have]

\* the bytes one writev call may take from m_iv
IovBytes(c) == c.iv0_len + (IF c.m_iv_count = 2 THEN c.iv1_len ELSE 0)

\* the bytes the client has still to send after the current request
RestOfWire ==
    [explicit |-> SubSeq(c_wire.explicit, c_sent + 1, Len(c_wire.explicit)),
     pad      |-> c_wire.pad - conn.pad]

\* WebServer::dealclientdata -> timer() -> http_conn::init(connfd, ...);
\* one connection is followed from its accept to its close
accept(w) ==
    /\ c_phase = "closed"
    /\ c_last = "none"
    /\ conn' = init_conn(conn)
    /\ c_wire' = w
    /\ c_sent' = 0
    /\ c_phase' = "idle"
    /\ c_last' = "accept"

\* EPOLLIN: read_once() and, if it succeeded, process(); the socket holds
\* the next n bytes of the request followed by p ordinary bytes
read_and_process(n, p, fits, flen) ==
    /\ c_phase = "idle"
    /\ conn.ev = "IN"
    /\ n + p > 0
    /\ LET r == read_once(conn, SubSeq(c_wire.explicit, c_sent + 1, c_sent + n), p)
       IN  IF r.ok
           THEN LET pr == process(r.c, fits, flen)
                IN  /\ conn' = pr.c
                    /\ c_last' = pr.last
                    /\ c_phase' = CASE pr.last = "read_more" -> "idle"
                                    [] pr.last = "read_resp" -> "ready_w"
                                    [] OTHER -> "closed"
           ELSE /\ conn' = close_conn(r.c)
                /\ c_last' = "read_fail"
                /\ c_phase' = "closed"
    /\ c_sent' = c_sent + n
    /\ UNCHANGED c_wire

\* EPOLLIN with the peer gone: recv returns 0, read_once() fails
peer_closed ==
    /\ c_phase = "idle"
    /\ conn.ev = "IN"
    /\ conn' = close_conn(conn)
    /\ c_last' = "read_fail"
    /\ c_phase' = "closed"
    /\ UNCHANGED <<c_wire, c_sent>>

\* EPOLLOUT: write() is entered
write_enter ==
    /\ c_phase = "ready_w"
    /\ conn.ev = "OUT"
    /\ IF conn.bytes_to_send = 0
       THEN /\ conn' = init(modfd(conn, "IN"))
            /\ c_wire' = RestOfWire
            /\ c_sent' = 0
            /\ c_phase' = "idle"
            /\ c_last' = "wrote_keep"
       ELSE /\ conn' = [conn EXCEPT !.ev = "NONE"]
            /\ c_phase' = "writing"
            /\ c_last' = "write_enter"
            /\ UNCHANGED <<c_wire, c_sent>>

\* write(): writev sends n bytes
write_writev(n) ==
    /\ c_phase = "writing"
    /\ LET c1 == AfterWritev(conn, n)
       IN  IF c1.bytes_to_send <= 0
           THEN IF c1.m_linger
                THEN /\ conn' = init(modfd(c1, "IN"))
                     /\ c_wire' = RestOfWire
                     /\ c_sent' = 0
                     /\ c_phase' = "idle"
                     /\ c_last' = "wrote_keep"
                ELSE \* write() returns false; the caller closes
                     /\ conn' = close_conn(modfd(c1, "IN"))
                     /\ c_phase' = "closed"
                     /\ c_last' = "wrote_close"
                     /\ UNCHANGED <<c_wire, c_sent>>
           ELSE /\ conn' = c1
                /\ c_last' = "write_part"
                /\ UNCHANGED <<c_wire, c_sent, c_phase>>

\* write(): writev fails with EAGAIN
write_eagain ==
    /\ c_phase = "writing"
    /\ conn' = modfd(conn, "OUT")
    /\ c_phase' = "ready_w"
    /\ c_last' = "write_again"
    /\ UNCHANGED <<c_wire, c_sent>>

\* the errno values of a failed writev other than EAGAIN
WritevErrors == {"EINTR", "EPIPE"}

\* write(): writev fails with errno e, not EAGAIN; write() returns false
\* and the caller closes the connection
write_error(e) ==
    /\ c_phase = "writing"
    /\ conn' = close_conn(conn)
    /\ c_phase' = "closed"
    /\ c_last' = IF e = "EINTR" THEN "write_intr" ELSE "write_err"
    /\ UNCHANGED <<c_wire, c_sent>>

PadChoices ==
    LET rest == c_wire.pad - conn.pad
    IN  {0, Min(READ_BUFFER_SIZE, rest), rest}

CNext ==
    \/ /\ \E w \in Wires : accept(w)
       /\ UNCHANGED <<qvars, pvars, svars, xvars>>
    \/ /\ \E n \in 0..(Len(c_wire.explicit) - c_sent), p \in PadChoices,
             fits \in BOOLEAN, flen \in {0, FileLen} :
               /\ (p > 0 => n = Len(c_wire.explicit) - c_sent)
               /\ read_and_process(n, p, fits, flen)
       /\ UNCHANGED <<qvars, pvars, svars, xvars>>
    \/ /\ peer_closed
       /\ UNCHANGED <<qvars, pvars, svars, xvars>>
    \/ /\ write_enter
       /\ UNCHANGED <<qvars, pvars, svars, xvars>>
    \/ /\ \E n \in 0..IovBytes(conn) :
               /\ (n = 0 => IovBytes(conn) = 0)
               /\ write_writev(n)
       /\ UNCHANGED <<qvars, pvars, svars, xvars>>
    \/ /\ write_eagain
       /\ UNCHANGED <<qvars, pvars, svars, xvars>>
    \/ /\ \E e \in WritevErrors : write_error(e)
       /\ UNCHANGED <<qvars, pvars, svars, xvars>>

(***************************************************************************)
(* WebServer, threadpool<http_conn>, sort_timer_lst                        *)
(*   (src/core/webserver.cpp, include/threadpool.h, src/timer)             *)
(*                                                                         *)
(* The dispatcher thread runs eventLoop; NWorkers threads run              *)
(* threadpool::run.  A connection slot users[f] keeps what the dispatcher  *)
(* and the workers share: the descriptor, the one-shot epoll registration, *)
(* m_state, improv, timer_flag and the response waiting to be written.     *)
(* What one call of read_once, process or write returns is an input of the *)
(* step that makes the call.                                               *)
(***************************************************************************)
TIMESLOT == 5

Fds     == 1..NFd
Workers == 1..NWorkers
MaxTime == MaxAdvance * TIMESLOT

\* threadpool constructor argument max_requests
m_max_requests == MaxQueue

NoUser ==
    [m_sockfd |-> -1, ev |-> "NONE", m_state |-> 0, improv |-> 0,
     timer_flag |-> 0, resp |-> "none"]

SInit ==
    /\ m_actormodel \in {0, 1}
    /\ users = [f \in Fds |-> NoUser]
    /\ users_timer = [f \in Fds |-> 0]
    /\ m_timer_lst = <<>>
    /\ m_workqueue = <<>>
    /\ wk = [w \in Workers |-> [pc |-> "wait", fd |-> 0, ret |-> TRUE]]
    /\ d_pc = "epoll_wait"
    /\ d_fd = 0
    /\ now = 0
    /\ sigalrm = FALSE
    /\ timeout = FALSE
    /\ h_activity = [f \in Fds |-> 0]
    /\ h_wrote = [f \in Fds |-> FALSE]
    /\ h_closed = [f \in Fds |-> [by |-> "none", due |-> TRUE]]

Live(f) == users[f].m_sockfd # -1

\* ---- sort_timer_lst: the list as the sequence head .. tail ------------
\* add_timer(timer, lst_head): lst is the list from lst_head on; the new
\* entry goes before the first later entry with a larger expire
RECURSIVE add_timer_after(_, _)
add_timer_after(t, lst) ==
    IF Len(lst) = 1 THEN lst \o <<t>>
    ELSE IF t.expire < lst[2].expire
         THEN <<lst[1], t>> \o Tail(lst)
         ELSE <<lst[1]>> \o add_timer_after(t, Tail(lst))

add_timer(t, lst) ==
    IF lst = <<>> THEN <<t>>
    ELSE IF t.expire < lst[1].expire THEN <<t>> \o lst
    ELSE add_timer_after(t, lst)

TimerPos(id, lst) ==
    IF \E i \in 1..Len(lst) : lst[i].id = id
    THEN CHOOSE i \in 1..Len(lst) : lst[i].id = id
    ELSE 0

\* WebServer::adjust_timer: expire = now + 3 * TIMESLOT, then
\* sort_timer_lst::adjust_timer moves the entry towards the tail
adjust_timer(id, lst, cur) ==
    LET i == TimerPos(id, lst)
    IN  IF i = 0 THEN lst
        ELSE LET t == [lst[i] EXCEPT !.expire = cur + 3 * TIMESLOT]
             IN  IF i = Len(lst) \/ t.expire < lst[i + 1].expire
                 THEN [lst EXCEPT ![i] = t]
                 ELSE SubSeq(lst, 1, i - 1)
                      \o add_timer_after(t, SubSeq(lst, i + 1, Len(lst)))

del_timer(id, lst) ==
    LET i == TimerPos(id, lst)
    IN  IF i = 0 THEN lst
        ELSE SubSeq(lst, 1, i - 1) \o SubSeq(lst, i + 1, Len(lst))

\* a tick() that finds no entry expired
ExpiredMutant(lst, cur) == 0

\* tick(): the entries at the head with expire <= cur
RECURSIVE Expired(_, _)
Expired(lst, cur) ==
    IF lst = <<>> \/ cur < lst[1].expire THEN 0
    ELSE 1 + Expired(Tail(lst), cur)

\* a util_timer not in the list (new util_timer)
NewTimer(lst) ==
    CHOOSE id \in 1..(Len(lst) + 1) : \A i \in 1..Len(lst) : lst[i].id # id

\* ---- http_conn as seen by the server ----------------------------------
\* modfd on the connection's descriptor; epoll_ctl fails on a closed one
s_modfd(u, ev) == IF u.m_sockfd # -1 THEN [u EXCEPT !.ev = ev] ELSE u

\* init(): m_state, timer_flag, improv and the response are reset
s_init(u) ==
    [u EXCEPT !.m_state = 0, !.timer_flag = 0, !.improv = 0, !.resp = "none"]

s_close_conn(u) ==
    IF u.m_sockfd # -1 THEN [u EXCEPT !.m_sockfd = -1, !.ev = "NONE"] ELSE u

\* history: who closed the connection in slot f, and whether 3 * TIMESLOT
\* had passed since its last activity
Closing(f, by) ==
    IF Live(f)
    THEN [h_closed EXCEPT ![f] = [by |-> by,
                                  due |-> now >= h_activity[f] + 3 * TIMESLOT]]
    ELSE h_closed

\* what one call of process() can do
ProcessOutcomes == {"more", "keep", "close", "fail"}

\* process(): NO_REQUEST re-arms for reading; a built response arms for
\* writing; a response that cannot be built closes the connection
s_process(u, o) ==
    CASE o = "more" -> s_modfd(u, "IN")
      [] o = "fail" -> s_close_conn(u)
      [] OTHER      -> s_modfd([u EXCEPT !.resp = o], "OUT")

\* what one call of write() can do, given the response that is waiting
WriteOutcomes(u) ==
    IF u.resp = "none" THEN {"empty"}
    ELSE IF u.m_sockfd = -1 THEN {"error"}
    ELSE {"eagain", "error", "done"}

\* write(): [ret, u]
s_write(u, o) ==
    CASE o = "empty"  -> [ret |-> TRUE, u |-> s_init(s_modfd(u, "IN"))]
      [] o = "eagain" -> [ret |-> TRUE, u |-> s_modfd(u, "OUT")]
      [] o = "error"  -> [ret |-> FALSE, u |-> u]
      [] OTHER        ->
           IF u.resp = "keep"
           THEN [ret |-> TRUE, u |-> s_init(s_modfd(u, "IN"))]
           ELSE [ret |-> FALSE, u |-> s_modfd(u, "IN")]

\* write() has just reported a completely sent non-keep-alive response
WroteClose(u, o) == o = "done" /\ u.resp = "close"

\* ---- the dispatcher: WebServer::eventLoop --------------------------------
Idle == d_pc = "epoll_wait"

\* threadpool::append / append_p: the queue after the call
Appended(f) ==
    IF Len(m_workqueue) >= m_max_requests THEN m_workqueue
    ELSE Append(m_workqueue, f)

\* dealclientdata -> timer(connfd, ...): accept returns the lowest free
\* descriptor; the slot is initialised and a new timer is added
dealclientdata(f) ==
    /\ Idle
    /\ ~Live(f)
    /\ \A g \in Fds : g < f => Live(g)
    /\ Len(m_timer_lst) < MaxTimers
    /\ LET id == NewTimer(m_timer_lst)
       IN  /\ users_timer' = [users_timer EXCEPT ![f] = id]
           /\ m_timer_lst' = add_timer([id |-> id, fd |-> f,
                                        expire |-> now + 3 * TIMESLOT],
                                       m_timer_lst)
    /\ users' = [users EXCEPT ![f] = s_init([@ EXCEPT !.m_sockfd = f, !.ev = "IN"])]
    /\ h_activity' = [h_activity EXCEPT ![f] = now]
    /\ h_wrote' = [h_wrote EXCEPT ![f] = FALSE]
    /\ h_closed' = [h_closed EXCEPT ![f] = [by |-> "none", due |-> TRUE]]
    /\ UNCHANGED <<m_actormodel, m_workqueue, wk, d_pc, d_fd, now, sigalrm,
                   timeout>>

\* EPOLLRDHUP | EPOLLHUP | EPOLLERR on a registered descriptor
hangup(f) ==
    /\ Idle
    /\ Live(f)
    /\ users[f].ev # "NONE"
    /\ users' = [users EXCEPT ![f] = s_close_conn(@)]
    /\ m_timer_lst' = del_timer(users_timer[f], m_timer_lst)
    /\ h_closed' = Closing(f, "dispatcher")
    /\ UNCHANGED <<m_actormodel, users_timer, m_workqueue, wk, d_pc, d_fd, now,
                   sigalrm, timeout, h_activity, h_wrote>>

\* EPOLLIN: dealwithread(sockfd); ok is what read_once() returns when the
\* dispatcher makes the call itself
dealwithread(f, ok) ==
    /\ Idle
    /\ Live(f)
    /\ users[f].ev = "IN"
    /\ IF m_actormodel = 1
       THEN /\ m_timer_lst' = adjust_timer(users_timer[f], m_timer_lst, now)
            /\ m_workqueue' = Appended(f)
            /\ users' = [users EXCEPT ![f].ev = "NONE",
                                      ![f].m_state =
                                          IF Len(m_workqueue) >= m_max_requests
                                          THEN @ ELSE 0]
            /\ d_pc' = "wait"
            /\ d_fd' = f
            /\ UNCHANGED h_closed
       ELSE IF ok
       THEN /\ m_workqueue' = Appended(f)
            /\ m_timer_lst' = adjust_timer(users_timer[f], m_timer_lst, now)
            /\ users' = [users EXCEPT ![f].ev = "NONE"]
            /\ UNCHANGED <<d_pc, d_fd, h_closed>>
       ELSE /\ users' = [users EXCEPT ![f] = s_close_conn(@)]
            /\ m_timer_lst' = del_timer(users_timer[f], m_timer_lst)
            /\ h_closed' = Closing(f, "dispatcher")
            /\ UNCHANGED <<m_workqueue, d_pc, d_fd>>
    /\ h_activity' = [h_activity EXCEPT ![f] = now]
    /\ UNCHANGED <<m_actormodel, users_timer, wk, now, sigalrm, timeout,
                   h_wrote>>

\* EPOLLOUT: dealwithwrite(sockfd); o is what write() does when the
\* dispatcher makes the call itself
dealwithwrite(f, o) ==
    /\ Idle
    /\ Live(f)
    /\ users[f].ev = "OUT"
    /\ IF m_actormodel = 1
       THEN /\ m_timer_lst' = adjust_timer(users_timer[f], m_timer_lst, now)
            /\ m_workqueue' = Appended(f)
            /\ users' = [users EXCEPT ![f].ev = "NONE",
                                      ![f].m_state =
                                          IF Len(m_workqueue) >= m_max_requests
                                          THEN @ ELSE 1]
            /\ d_pc' = "wait"
            /\ d_fd' = f
            /\ UNCHANGED <<h_closed, h_wrote>>
       ELSE LET r == s_write([users[f] EXCEPT !.ev = "NONE"], o)
            IN  /\ o \in WriteOutcomes(users[f])
                /\ IF r.ret
                   THEN /\ users' = [users EXCEPT ![f] = r.u]
                        /\ m_timer_lst' = adjust_timer(users_timer[f], m_timer_lst, now)
                        /\ UNCHANGED h_closed
                   ELSE /\ users' = [users EXCEPT ![f] = s_close_conn(r.u)]
                        /\ m_timer_lst' = del_timer(users_timer[f], m_timer_lst)
                        /\ h_closed' = Closing(f, "dispatcher")
                /\ h_wrote' = [h_wrote EXCEPT ![f] = @ \/ WroteClose(users[f], o)]
                /\ UNCHANGED <<m_workqueue, d_pc, d_fd>>
    /\ h_activity' = [h_activity EXCEPT ![f] = now]
    /\ UNCHANGED <<m_actormodel, users_timer, wk, now, sigalrm, timeout>>

\* the wait loop of dealwithread / dealwithwrite reads improv = 1
wait_improv ==
    /\ d_pc = "wait"
    /\ users[d_fd].improv = 1
    /\ IF users[d_fd].timer_flag = 1
       THEN /\ users' = [users EXCEPT ![d_fd] =
                            [s_close_conn(@) EXCEPT !.timer_flag = 0, !.improv = 0]]
            /\ m_timer_lst' = del_timer(users_timer[d_fd], m_timer_lst)
            /\ h_closed' = Closing(d_fd, "dispatcher")
       ELSE /\ users' = [users EXCEPT ![d_fd].improv = 0]
            /\ UNCHANGED <<m_timer_lst, h_closed>>
    /\ d_pc' = "epoll_wait"
    /\ d_fd' = 0
    /\ UNCHANGED <<m_actormodel, users_timer, m_workqueue, wk, now, sigalrm,
                   timeout, h_activity, h_wrote>>

\* the wait loop gives up after max_wait polls that all read improv = 0
wait_timeout ==
    /\ d_pc = "wait"
    /\ users[d_fd].improv = 0
    /\ d_pc' = "epoll_wait"
    /\ d_fd' = 0
    /\ UNCHANGED <<m_actormodel, users, users_timer, m_timer_lst, m_workqueue,
                   wk, now, sigalrm, timeout, h_activity, h_wrote, h_closed>>

\* TIMESLOT seconds pass and SIGALRM is delivered (sig_handler writes to the pipe)
alarm ==
    /\ now < MaxTime
    /\ now' = now + TIMESLOT
    /\ sigalrm' = TRUE
    /\ UNCHANGED <<m_actormodel, users, users_timer, m_timer_lst, m_workqueue,
                   wk, d_pc, d_fd, timeout, h_activity, h_wrote, h_closed>>

\* dealwithsignal: SIGALRM read from the pipe sets timeout
dealwithsignal ==
    /\ Idle
    /\ sigalrm
    /\ sigalrm' = FALSE
    /\ timeout' = TRUE
    /\ UNCHANGED <<m_actormodel, users, users_timer, m_timer_lst, m_workqueue,
                   wk, d_pc, d_fd, now, h_activity, h_wrote, h_closed>>

\* Utils::timer_handler -> sort_timer_lst::tick: every entry at the head
\* with expire <= now has cb_func called on its slot and is deleted
timer_handler ==
    /\ Idle
    /\ timeout
    /\ LET n    == Expired(m_timer_lst, now)
           hit  == {m_timer_lst[i].fd : i \in 1..n}
       IN  /\ users' = [f \in Fds |-> IF f \in hit THEN s_close_conn(users[f])
                                      ELSE users[f]]
           /\ m_timer_lst' = SubSeq(m_timer_lst, n + 1, Len(m_timer_lst))
           /\ h_closed' = [f \in Fds |-> IF f \in hit THEN Closing(f, "tick")[f]
                                         ELSE h_closed[f]]
    /\ timeout' = FALSE
    /\ UNCHANGED <<m_actormodel, users_timer, m_workqueue, wk, d_pc, d_fd, now,
                   sigalrm, h_activity, h_wrote>>

\* ---- the workers: threadpool::run ----------------------------------------
\* m_queuestat.wait(), then the front of m_workqueue is taken under the lock
run_take(w) ==
    /\ wk[w].pc = "wait"
    /\ m_workqueue # <<>>
    /\ wk' = [wk EXCEPT ![w] = [pc |-> "run", fd |-> Head(m_workqueue), ret |-> TRUE]]
    /\ m_workqueue' = Tail(m_workqueue)
    /\ UNCHANGED <<m_actormodel, users, users_timer, m_timer_lst, d_pc, d_fd,
                   now, sigalrm, timeout, h_activity, h_wrote, h_closed>>

\* the I/O and processing of the task: read_once() and process(), or
\* write(), or (main thread does the I/O) process() alone
run_io(w, ok, po, wo) ==
    /\ wk[w].pc = "run"
    /\ LET f == wk[w].fd
           u == users[f]
       IN  IF m_actormodel = 1 /\ u.m_state = 1
           THEN LET r == s_write(u, wo)
                IN  /\ wo \in WriteOutcomes(u)
                    /\ users' = [users EXCEPT ![f] = r.u]
                    /\ wk' = [wk EXCEPT ![w].pc = "post", ![w].ret = r.ret]
                    /\ h_wrote' = [h_wrote EXCEPT ![f] = @ \/ WroteClose(u, wo)]
                    /\ UNCHANGED h_closed
           ELSE IF m_actormodel = 1 /\ ~(ok /\ Live(f))
           THEN /\ wk' = [wk EXCEPT ![w].pc = "post", ![w].ret = FALSE]
                /\ UNCHANGED <<users, h_wrote, h_closed>>
           ELSE /\ users' = [users EXCEPT ![f] = s_process(u, po)]
                /\ wk' = [wk EXCEPT ![w].pc = "post", ![w].ret = TRUE]
                /\ h_closed' = IF po = "fail" THEN Closing(f, "worker") ELSE h_closed
                /\ UNCHANGED h_wrote
    /\ UNCHANGED <<m_actormodel, users_timer, m_timer_lst, m_workqueue, d_pc,
                   d_fd, now, sigalrm, timeout, h_activity>>

\* the end of the task: timer_flag and improv are set (workers do the
\* I/O), or the connectionRAII is destroyed (main thread does the I/O)
run_post(w) ==
    /\ wk[w].pc = "post"
    /\ users' = IF m_actormodel = 1
                THEN [users EXCEPT ![wk[w].fd].improv = 1,
                                   ![wk[w].fd].timer_flag =
                                       IF wk[w].ret THEN @ ELSE 1]
                ELSE users
    /\ wk' = [wk EXCEPT ![w] = [pc |-> "wait", fd |-> 0, ret |-> TRUE]]
    /\ UNCHANGED <<m_actormodel, users_timer, m_timer_lst, m_workqueue, d_pc,
                   d_fd, now, sigalrm, timeout, h_activity, h_wrote, h_closed>>

SNext ==
    \/ /\ \E f \in Fds : dealclientdata(f)
       /\ UNCHANGED others
    \/ /\ \E f \in Fds : hangup(f)
       /\ UNCHANGED others
    \/ /\ \E f \in Fds, ok \in BOOLEAN : dealwithread(f, ok)
       /\ UNCHANGED others
    \/ /\ \E f \in Fds, o \in {"eagain", "error", "done"} : dealwithwrite(f, o)
       /\ UNCHANGED others
    \/ /\ wait_improv
       /\ UNCHANGED others
    \/ /\ wait_timeout
       /\ UNCHANGED others
    \/ /\ alarm
       /\ UNCHANGED others
    \/ /\ dealwithsignal
       /\ UNCHANGED others
    \/ /\ timer_handler
       /\ UNCHANGED others
    \/ /\ \E w \in Workers : run_take(w)
       /\ UNCHANGED others
    \/ /\ \E w \in Workers, ok \in BOOLEAN, po \in ProcessOutcomes,
             wo \in {"empty", "eagain", "error", "done"} : run_io(w, ok, po, wo)
       /\ UNCHANGED others
    \/ /\ \E w \in Workers : run_post(w)
       /\ UNCHANGED others

(***************************************************************************)
(* http_conn::m_ip_counts  (src/http/http_connection.cpp)                  *)
(*                                                                         *)
(* The dispatcher accepts connections (init) and closes them (close_conn   *)
(* from the timer tick, a hang-up event or a failed read or write); a      *)
(* worker parses the headers of a request (update_client_ip).  Whatever    *)
(* runs between m_ip_lock.lock() and unlock() is one step.  The tick       *)
(* closes a connection when its timer has expired, whether or not a worker *)
(* is busy with it.                                                        *)
(***************************************************************************)
Slots      == 1..NSlots
PrivateIps == {"10.0.0.1", "192.168.0.1"}
PeerIps    == PrivateIps \cup {"1.2.3.4"}
ForwardedValues == {"", " 1.2.3.4", "5.6.7.8, 1.2.3.4", "10.0.0.1"}

\* extract_forwarded_ip: the first entry of the list, trimmed
extract_forwarded_ip(value) ==
    CASE value = " 1.2.3.4"         -> "1.2.3.4"
      [] value = "5.6.7.8, 1.2.3.4" -> "5.6.7.8"
      [] OTHER                      -> value

\* normalize_client_ip: loopback and private addresses are all "local"
normalize_client_ip(ip) ==
    IF ip = "" THEN ""
    ELSE IF ip \in PrivateIps THEN "local"
    ELSE ip

\* ++m_ip_counts[ip]
IpInc(m, ip) ==
    [x \in DOMAIN m \cup {ip} |->
        IF x = ip THEN (IF ip \in DOMAIN m THEN m[ip] + 1 ELSE 1) ELSE m[x]]

\* find(ip); erase the entry when it is <= 1, decrement it otherwise
IpDec(m, ip) ==
    IF ip \notin DOMAIN m THEN m
    ELSE IF m[ip] <= 1 THEN [x \in DOMAIN m \ {ip} |-> m[x]]
    ELSE [m EXCEPT ![ip] = @ - 1]

IInit ==
    /\ ip_conn = [c \in Slots |-> [m_sockfd |-> -1, m_ip |-> ""]]
    /\ m_ip_counts = [x \in {} |-> 0]
    /\ ip_task = [c \in Slots |-> [pc |-> "none", normalized |-> ""]]
    /\ ip_close = [c \in Slots |-> FALSE]
    /\ ip_accepts = 0

\* http_conn::init(sockfd, addr, ...): accept() returned the free
\* descriptor c for a peer with address addr
init_addr(c, addr) ==
    /\ ip_conn[c].m_sockfd = -1
    /\ ~ip_close[c]
    /\ ip_accepts < MaxAccepts
    /\ LET ip == normalize_client_ip(addr)
       IN  /\ ip_conn' = [ip_conn EXCEPT ![c] = [m_sockfd |-> c, m_ip |-> ip]]
           /\ m_ip_counts' = IF ip # "" THEN IpInc(m_ip_counts, ip)
                             ELSE m_ip_counts
    /\ ip_accepts' = ip_accepts + 1
    /\ UNCHANGED <<ip_task, ip_close>>

\* threadpool::run takes the task the dispatcher queued for connection c
task_take(c) ==
    /\ ip_conn[c].m_sockfd # -1
    /\ ~ip_close[c]
    /\ ip_task[c].pc = "none"
    /\ ip_task' = [ip_task EXCEPT ![c].pc = "parse"]
    /\ UNCHANGED <<ip_conn, m_ip_counts, ip_close, ip_accepts>>

\* parse_headers reaches an X-Forwarded-For / CF-Connecting-IP line:
\* update_client_ip up to its early return
parse_forwarded(c, value) ==
    /\ ip_task[c].pc = "parse"
    /\ LET normalized == normalize_client_ip(extract_forwarded_ip(value))
       IN  IF normalized = "" \/ normalized = ip_conn[c].m_ip
           THEN UNCHANGED ip_task
           ELSE ip_task' = [ip_task EXCEPT ![c] = [pc |-> "update",
                                                   normalized |-> normalized]]
    /\ UNCHANGED <<ip_conn, m_ip_counts, ip_close, ip_accepts>>

\* update_client_ip between m_ip_lock.lock() and unlock()
update_client_ip(c) ==
    /\ ip_task[c].pc = "update"
    /\ LET old == ip_conn[c].m_ip
           m1  == IF old # "" THEN IpDec(m_ip_counts, old) ELSE m_ip_counts
       IN  m_ip_counts' = IpInc(m1, ip_task[c].normalized)
    /\ ip_conn' = [ip_conn EXCEPT ![c].m_ip = ip_task[c].normalized]
    /\ ip_task' = [ip_task EXCEPT ![c] = [pc |-> "parse", normalized |-> ""]]
    /\ UNCHANGED <<ip_close, ip_accepts>>

\* the worker has finished the task
task_done(c) ==
    /\ ip_task[c].pc = "parse"
    /\ ip_task' = [ip_task EXCEPT ![c].pc = "none"]
    /\ UNCHANGED <<ip_conn, m_ip_counts, ip_close, ip_accepts>>

\* close_conn(true) by the dispatcher, first half: the test of m_sockfd
\* and the update of m_ip_counts under m_ip_lock
close_conn_count(c) ==
    /\ ip_conn[c].m_sockfd # -1
    /\ \A d \in Slots : ~ip_close[d]
    /\ m_ip_counts' = IF ip_conn[c].m_ip # ""
                      THEN IpDec(m_ip_counts, ip_conn[c].m_ip)
                      ELSE m_ip_counts
    /\ ip_close' = [ip_close EXCEPT ![c] = TRUE]
    /\ UNCHANGED <<ip_conn, ip_task, ip_accepts>>

\* close_conn(true), second half: removefd(); m_sockfd = -1
close_conn_removefd(c) ==
    /\ ip_close[c]
    /\ ip_conn' = [ip_conn EXCEPT ![c].m_sockfd = -1]
    /\ ip_close' = [ip_close EXCEPT ![c] = FALSE]
    /\ UNCHANGED <<m_ip_counts, ip_task, ip_accepts>>

notI == <<qvars, pvars, cvars, svars, uvars, tvars, yvars>>

INext ==
    \/ /\ \E c \in Slots, addr \in PeerIps : init_addr(c, addr)
       /\ UNCHANGED notI
    \/ /\ \E c \in Slots : task_take(c)
       /\ UNCHANGED notI
    \/ /\ \E c \in Slots, value \in ForwardedValues : parse_forwarded(c, value)
       /\ UNCHANGED notI
    \/ /\ \E c \in Slots : update_client_ip(c)
       /\ UNCHANGED notI
    \/ /\ \E c \in Slots : task_done(c)
       /\ UNCHANGED notI
    \/ /\ \E c \in Slots : close_conn_count(c)
       /\ UNCHANGED notI
    \/ /\ \E c \in Slots : close_conn_removefd(c)
       /\ UNCHANGED notI

(***************************************************************************)
(* http_conn::do_request and the upload handlers                           *)
(*                                                                         *)
(* A URL, a file name and a stored name are sequences of tokens: "/", ".", *)
(* "%2e" (a percent-encoded dot) and "_" are those characters, any other   *)
(* token is a run of ordinary characters.  A Cookie header is a sequence   *)
(* of [name, value] pairs.  The users map is loaded at start and holds     *)
(* SiteUsers; login and registration (POST /2..., /3...) are not part of   *)
(* the requests modelled.  The document root holds StaticFiles; every file *)
(* is readable by others (uploads are created with mode 0644).            *)
(***************************************************************************)
SiteUsers     == {"u1", "u2"}
CookieHeaders ==
    {<<>>,
     <<[name |-> "ws_user", value |-> "u1"]>>,
     <<[name |-> "ws_user", value |-> "ghost"]>>,
     <<[name |-> "sid", value |-> "1"], [name |-> "ws_user", value |-> "u2"]>>}
OriginalNames == {<<".", "a">>, <<"a", "/", ".", ".", "b">>}
StaticFiles   ==
    {<< <<"index.html">> >>, << <<"404.html">> >>,
     << <<"pages">>, <<"upload.html">> >>, << <<"pages">>, <<"status.html">> >>}
StaticDirs    == {<<>>, << <<"pages">> >>, << <<"uploads">> >>}

\* strftime("%Y%m%d%H%M%S") of the second t
TsName(t) == <<"t0", "t1", "t2", "t3">>[t + 1]

\* url_decode without the decoding
url_decodeMutant(value) == value

\* url_decode: %XX becomes the character, + becomes a space
url_decode(value) ==
    [i \in 1..Len(value) |->
        CASE value[i] = "%2e" -> "."
          [] value[i] = "+"   -> " "
          [] OTHER            -> value[i]]

\* std::string::find("..") != npos
find_dotdot(s) == \E i \in 1..(Len(s) - 1) : s[i] = "." /\ s[i + 1] = "."

\* get_cookie_value(key): the value of the first pair named key
get_cookie_value(cookie, key) ==
    LET S == {i \in 1..Len(cookie) : cookie[i].name = key}
    IN  IF S = {} THEN ""
        ELSE cookie[CHOOSE i \in S : \A j \in S : i <= j].value

\* logged_in for any non-empty cookie
logged_inMutant(cookie_user) == cookie_user # ""

\* do_request: logged_in = !cookie_user.empty() && users.find(cookie_user) != users.end()
logged_in(cookie_user) == cookie_user # "" /\ cookie_user \in SiteUsers

\* sanitize_filename: separators become "_", leading dots are dropped
RECURSIVE StripDots(_)
StripDots(name) ==
    IF name # <<>> /\ Head(name) = "." THEN StripDots(Tail(name)) ELSE name

sanitize_filename(value) ==
    LET name == [i \in 1..Len(value) |->
                    IF value[i] \in {"/", "\\", ":", "|", "<", ">"} THEN "_"
                    ELSE value[i]]
        bare == StripDots(name)
    IN  IF bare = <<>> THEN <<"upload.bin">> ELSE bare

\* the URL rewrites at the head of do_request
UrlAlias(url) ==
    CASE url \in {<<"/", "picture.html">>, <<"/", "video.html">>,
                  <<"/", "5">>, <<"/", "6">>}
                                        -> <<"/", "uploads", "/", "list">>
      [] url = <<"/", "upload.html">>   -> <<"/", "pages", "/", "upload.html">>
      [] url = <<"/", "status.html">>   -> <<"/", "pages", "/", "status.html">>
      [] url = <<"/", "8">>             -> <<"/", "index.html">>
      [] OTHER                          -> url

\* stat(doc_root + url): the path the kernel resolves, as its components
\* (empty components and "." are skipped)
RECURSIVE PathOf(_, _, _)
PathOf(url, i, cur) ==
    LET done == IF cur = <<>> \/ cur = <<".">> THEN <<>> ELSE <<cur>>
    IN  IF i > Len(url) THEN done
        ELSE IF url[i] = "/" THEN done \o PathOf(url, i + 1, <<>>)
        ELSE PathOf(url, i + 1, Append(cur, url[i]))

Stat(path) ==
    IF path \in StaticFiles THEN "file"
    ELSE IF Len(path) = 2 /\ path[1] = <<"uploads">> /\ path[2] \in up_files
    THEN "file"
    ELSE IF path \in StaticDirs THEN "dir"
    ELSE "none"

\* what a request leaves behind: the HTTP_CODE, the status of the response,
\* the file mapped for the body, and the uploads directory and metadata
Reply(code, status, served) ==
    [code |-> code, status |-> status, served |-> served,
     files |-> up_files, meta |-> up_meta]

\* the redirect_login lambda
redirect_login == Reply("DYNAMIC_REQUEST", 302, <<>>)

\* the render_not_found lambda
render_not_found ==
    IF Stat(<< <<"404.html">> >>) = "file"
    THEN Reply("DYNAMIC_REQUEST", 404, <<>>)
    ELSE Reply("NO_RESOURCE", 404, <<>>)

\* user_owns_upload: a record of owner's list names stored_name
user_owns_upload(owner, stored_name) ==
    \E i \in 1..Len(up_meta[owner]) : up_meta[owner][i].stored_name = stored_name

\* handle_upload_request: form.filename is the file name of the multipart
\* body (form.kind # "upload": the body does not parse)
handle_upload_request(m_username, form) ==
    IF form.kind # "upload" THEN Reply("DYNAMIC_REQUEST", 400, <<>>)
    ELSE
    LET original_name == sanitize_filename(form.value)
        stored_name   == <<m_username, "_", TsName(site_now), "_">> \o original_name
    IN  [code |-> "DYNAMIC_REQUEST", status |-> 200, served |-> <<>>,
         files |-> up_files \cup {stored_name},
         meta  |-> [up_meta EXCEPT ![m_username] =
                       Append(@, [stored_name |-> stored_name,
                                  original_name |-> original_name])]]

\* handle_upload_delete: form.value is the value of the body's file field
handle_upload_delete(m_username, method, form) ==
    IF method # "POST" \/ form.kind # "delete"
    THEN Reply("DYNAMIC_REQUEST", 400, <<>>)
    ELSE
    LET stored == url_decode(form.value)
        Keep(rec) == rec.stored_name # stored
    IN  IF stored = <<>> THEN Reply("DYNAMIC_REQUEST", 400, <<>>)
        ELSE IF find_dotdot(stored)
                \/ \E i \in 1..Len(stored) : stored[i] \in {"/", "\\"}
        THEN Reply("DYNAMIC_REQUEST", 400, <<>>)
        ELSE IF ~user_owns_upload(m_username, stored)
        THEN Reply("DYNAMIC_REQUEST", 404, <<>>)
        ELSE [code |-> "DYNAMIC_REQUEST", status |-> 200, served |-> <<>>,
              files |-> up_files \ {stored},
              meta  |-> [up_meta EXCEPT ![m_username] = SelectSeq(@, Keep)]]

\* do_request, static file branch
ServeFile(url) ==
    LET path == PathOf(url, 1, <<>>)
    IN  CASE Stat(path) = "none" -> render_not_found
          [] Stat(path) = "dir"  -> Reply("BAD_REQUEST", 400, <<>>)
          [] OTHER               -> Reply("FILE_REQUEST", 200, path)

\* do_request for a complete request
do_request_site(method, m_url, cookie, form) ==
    LET decoded == url_decode(m_url)
    IN  IF decoded = <<>> \/ decoded[1] # "/" THEN Reply("BAD_REQUEST", 400, <<>>)
        ELSE IF find_dotdot(decoded) THEN Reply("BAD_REQUEST", 400, <<>>)
        ELSE
        LET url         == UrlAlias(decoded)
            cookie_user == get_cookie_value(cookie, "ws_user")
            ok          == logged_in(cookie_user)
            m_username  == IF ok THEN cookie_user ELSE ""
        IN  CASE url = <<"/", "status.json">> ->
                   IF ~ok THEN redirect_login
                   ELSE Reply("DYNAMIC_REQUEST", 200, <<>>)
              [] url = <<"/", "upload">> ->
                   IF ~ok THEN redirect_login
                   ELSE IF method = "POST"
                   THEN handle_upload_request(m_username, form)
                   ELSE ServeFile(<<"/", "pages", "/", "upload.html">>)
              [] url = <<"/", "uploads", "/", "delete">> ->
                   IF ~ok THEN redirect_login
                   ELSE handle_upload_delete(m_username, method, form)
              [] url = <<"/", "uploads", "/", "list">> ->
                   IF ~ok THEN redirect_login
                   ELSE Reply("DYNAMIC_REQUEST", 200, <<>>)
              [] /\ Len(url) >= 3
                 /\ SubSeq(url, 1, 3) = <<"/", "uploads", "/">>
                 /\ url \notin {<<"/", "uploads", "/", "delete">>,
                                <<"/", "uploads", "/", "list">>} ->
                   LET stored == SubSeq(url, 4, Len(url))
                   IN  IF ~ok THEN redirect_login
                       ELSE IF stored = <<>> \/ ~user_owns_upload(m_username, stored)
                       THEN render_not_found
                       ELSE ServeFile(url)
              [] url \in {<<"/", "pages", "/", "status.html">>,
                          <<"/", "pages", "/", "upload.html">>} ->
                   IF ~ok THEN redirect_login ELSE ServeFile(url)
              [] OTHER -> ServeFile(url)

UInit ==
    /\ up_files = {}
    /\ up_meta = [u \in SiteUsers |-> <<>>]
    /\ site_now = 0
    /\ site_uploads = 0
    /\ site_last = [method |-> "", url |-> <<>>, cookie_user |-> "",
                    target |-> <<>>, code |-> "NONE", status |-> 0,
                    served |-> <<>>, effect |-> FALSE, owned |-> FALSE,
                    others |-> TRUE]

\* the URLs requested: the endpoints, the stored files under several
\* spellings of their path, and paths with ".."
FixedUrls ==
    {<<"/", "status.json">>, <<"/", "upload">>, <<"/", "picture.html">>,
     <<"/", "uploads", "/", "list">>, <<"/", "uploads", "/", "delete">>,
     <<"/", "index.html">>,
     <<"/", "%2e", "%2e", "/", "index.html">>,
     <<"/", "uploads", "/", ".", "%2e", "/", "index.html">>}
FileUrls(s) ==
    {<<"/", "uploads", "/">> \o s, <<"/", ".", "/", "uploads", "/">> \o s}
Forms ==
    {[kind |-> "none", value |-> <<>>]}
    \cup {[kind |-> "upload", value |-> n] : n \in OriginalNames}
    \cup {[kind |-> "delete", value |-> s] : s \in up_files \cup {<<"x">>}}

\* one request is parsed completely and do_request runs on it; POST and a
\* body are sent to the endpoints that read them
SiteRequest(method, m_url, cookie, form) ==
    /\ (method = "GET" => form.kind = "none")
    /\ (method = "POST" => m_url \in {<<"/", "upload">>,
                                      <<"/", "uploads", "/", "delete">>})
    /\ (form.kind = "upload" => m_url = <<"/", "upload">>)
    /\ (form.kind = "delete" => m_url = <<"/", "uploads", "/", "delete">>)
    /\ (form.kind = "upload" => site_uploads < MaxUploads)
    /\ \E r \in {do_request_site(method, m_url, cookie, form)} :
       LET user == get_cookie_value(cookie, "ws_user")
           tgt  == IF form.kind = "delete" THEN form.value ELSE <<>>
       IN  /\ up_files' = r.files
           /\ up_meta' = r.meta
           /\ site_last' =
                [method |-> method, url |-> m_url, cookie_user |-> user,
                 target |-> tgt, code |-> r.code, status |-> r.status,
                 served |-> r.served,
                 effect |-> (r.files # up_files \/ r.meta # up_meta),
                 owned  |-> (user \in SiteUsers /\ user_owns_upload(user, tgt)),
                 others |-> \A u \in SiteUsers :
                               LET Other(rec) == rec.stored_name # tgt
                               IN  SelectSeq(r.meta[u], Other)
                                     = SelectSeq(up_meta[u], Other)]
    /\ site_uploads' = IF form.kind = "upload" THEN site_uploads + 1
                       ELSE site_uploads
    /\ UNCHANGED site_now

\* a second passes
SiteTick ==
    /\ site_now < MaxNow
    /\ site_now' = site_now + 1
    /\ UNCHANGED <<up_files, up_meta, site_uploads, site_last>>

notU == <<qvars, pvars, cvars, svars, ivars, tvars, yvars>>

UNext ==
    \/ /\ \E method \in {"GET", "POST"}, cookie \in CookieHeaders,
             m_url \in FixedUrls \cup UNION {FileUrls(s) : s \in up_files},
             form \in Forms :
               SiteRequest(method, m_url, cookie, form)
       /\ UNCHANGED notU
    \/ /\ SiteTick
       /\ UNCHANGED notU

(***************************************************************************)
(* sort_timer_lst as a doubly linked list  (src/timer/timer_list.cpp)      *)
(*                                                                         *)
(* The list with its pointers: head, tail and, for each util_timer, its    *)
(* expire, prev and next (0 is NULL).  A util_timer that was deleted is    *)
(* free memory; its number may be handed out again by a later new.         *)
(***************************************************************************)
Nodes == 1..MaxNodes

\* a util_timer that is not allocated
FreeNode == [st |-> "free", expire |-> 0, prev |-> 0, next |-> 0]

TInit ==
    /\ tl_head = 0
    /\ tl_tail = 0
    /\ tl_nodes = [t \in Nodes |-> FreeNode]
    /\ tl_now = 0
    /\ tl_fired = <<>>
    /\ tl_last = "none"

\* the list object: head, tail and the util_timers (n)
TimerList == [head |-> tl_head, tail |-> tl_tail, n |-> tl_nodes]

\* add_timer(timer, lst_head): walk from lst_head, link timer before the
\* first later entry with a larger expire, or after the last entry
RECURSIVE link_add_timer_from(_, _, _)
link_add_timer_from(L, timer, prev) ==
    LET tmp == L.n[prev].next
    IN  IF tmp = 0
        THEN [L EXCEPT !.n[prev].next = timer, !.n[timer].prev = prev,
                       !.n[timer].next = 0, !.tail = timer]
        ELSE IF L.n[timer].expire < L.n[tmp].expire
        THEN [L EXCEPT !.n[prev].next = timer, !.n[timer].next = tmp,
                       !.n[tmp].prev = timer, !.n[timer].prev = prev]
        ELSE link_add_timer_from(L, timer, tmp)

\* add_timer(timer)
link_add_timer(L, timer) ==
    IF L.head = 0
    THEN [L EXCEPT !.head = timer, !.tail = timer]
    ELSE IF L.n[timer].expire < L.n[L.head].expire
    THEN [L EXCEPT !.n[timer].next = L.head, !.n[L.head].prev = timer,
                   !.head = timer]
    ELSE link_add_timer_from(L, timer, L.head)

\* adjust_timer(timer): timer->expire has been increased by the caller
link_adjust_timer(L, timer) ==
    LET tmp == L.n[timer].next
    IN  IF tmp = 0 \/ L.n[timer].expire < L.n[tmp].expire
        THEN L
        ELSE IF timer = L.head
        THEN link_add_timer_from(
                 [L EXCEPT !.head = tmp, !.n[tmp].prev = 0, !.n[timer].next = 0],
                 timer, tmp)
        ELSE link_add_timer_from(
                 [L EXCEPT !.n[L.n[timer].prev].next = tmp,
                           !.n[tmp].prev = L.n[timer].prev],
                 timer, tmp)

\* del_timer(timer)
link_del_timer(L, timer) ==
    IF timer = L.head /\ timer = L.tail
    THEN [L EXCEPT !.n[timer] = FreeNode, !.head = 0, !.tail = 0]
    ELSE IF timer = L.head
    THEN [L EXCEPT !.head = L.n[timer].next, !.n[L.n[timer].next].prev = 0,
                   !.n[timer] = FreeNode]
    ELSE IF timer = L.tail
    THEN [L EXCEPT !.tail = L.n[timer].prev, !.n[L.n[timer].prev].next = 0,
                   !.n[timer] = FreeNode]
    ELSE [L EXCEPT !.n[L.n[timer].prev].next = L.n[timer].next,
                   !.n[L.n[timer].next].prev = L.n[timer].prev,
                   !.n[timer] = FreeNode]

\* tick(): the test that ends the walk (TickStopsMutant: an entry that
\* expires exactly now is left in the list)
TickStopsMutant(cur, expire) == cur <= expire
TickStops(cur, expire) == cur < expire

\* tick(): the while loop; fired collects the entries whose cb_func ran
RECURSIVE TickLoop(_, _, _)
TickLoop(L, cur, fired) ==
    LET tmp == L.head
    IN  IF tmp = 0 \/ TickStops(cur, L.n[tmp].expire)
        THEN [L |-> L, fired |-> fired]
        ELSE LET nx == L.n[tmp].next
                 L1 == [L EXCEPT !.head = nx]
                 L2 == IF nx # 0 THEN [L1 EXCEPT !.n[nx].prev = 0] ELSE L1
             IN  TickLoop([L2 EXCEPT !.n[tmp] = FreeNode], cur, Append(fired, tmp))

\* tick() when time(NULL) returns cur
link_tick(L, cur) ==
    IF L.head = 0 THEN [L |-> L, fired |-> <<>>] ELSE TickLoop(L, cur, <<>>)

SetList(L) ==
    /\ tl_head' = L.head
    /\ tl_tail' = L.tail
    /\ tl_nodes' = L.n

\* new util_timer, expire = e, then add_timer
TAdd(timer, e) ==
    /\ tl_nodes[timer].st = "free"
    /\ SetList(link_add_timer(
           [TimerList EXCEPT !.n[timer] = [st |-> "in", expire |-> e,
                                           prev |-> 0, next |-> 0]],
           timer))
    /\ tl_fired' = <<>>
    /\ tl_last' = "add"
    /\ UNCHANGED tl_now

\* timer->expire = e with e not earlier than before, then adjust_timer
TAdjust(timer, e) ==
    /\ tl_nodes[timer].st = "in"
    /\ e >= tl_nodes[timer].expire
    /\ SetList(link_adjust_timer([TimerList EXCEPT !.n[timer].expire = e], timer))
    /\ tl_fired' = <<>>
    /\ tl_last' = "adjust"
    /\ UNCHANGED tl_now

TDel(timer) ==
    /\ tl_nodes[timer].st = "in"
    /\ SetList(link_del_timer(TimerList, timer))
    /\ tl_fired' = <<>>
    /\ tl_last' = "del"
    /\ UNCHANGED tl_now

\* tick() at a time cur not before the previous tick
TTick(cur) ==
    /\ cur >= tl_now
    /\ \E r \in {link_tick(TimerList, cur)} :
           /\ SetList(r.L)
           /\ tl_fired' = r.fired
    /\ tl_now' = cur
    /\ tl_last' = "tick"

notT == <<qvars, pvars, cvars, svars, ivars, uvars, yvars>>

TNext ==
    \/ /\ \E timer \in Nodes, e \in 0..MaxExpire : TAdd(timer, e)
       /\ UNCHANGED notT
    \/ /\ \E timer \in Nodes, e \in 0..MaxExpire : TAdjust(timer, e)
       /\ UNCHANGED notT
    \/ /\ \E timer \in Nodes : TDel(timer)
       /\ UNCHANGED notT
    \/ /\ \E cur \in 0..MaxExpire : TTick(cur)
       /\ UNCHANGED notT

(***************************************************************************)
(* WebServer::dealclientdata and http_conn::m_user_count                   *)
(*   (src/core/webserver.cpp, src/http/http_connection.cpp)                *)
(*                                                                         *)
(* The listener with its backlog, the descriptors accept() hands out, the  *)
(* connection table users[MAX_FD] and the live-connection count.  The      *)
(* dispatcher accepts and closes connections; a worker closes one when     *)
(* process() cannot build its response.  m_ip_lock is held between the     *)
(* lock and unlock steps of init(sockfd, ...) and close_conn.  MAX_FD is   *)
(* scaled down to MaxFd.                                                   *)
(***************************************************************************)
MAX_FD == MaxFd

\* the descriptors the process holds besides the connections (stdin,
\* stdout, stderr, and further ones: listener, epoll, pipe, log, database)
OwnFds == 0..(NOwnFds - 1)

\* every descriptor number a connection can get
ConnFds == NOwnFds..(NOwnFds + MAX_FD)

AInit ==
    /\ ac_mode = -1
    /\ ac_backlog = 0
    /\ ac_event = FALSE
    /\ ac_pc = "start"
    /\ ac_fd = -1
    /\ ac_open = {}
    /\ m_user_count = 0
    /\ ac_lock = "free"
    /\ ac_wk = [pc |-> "idle", fd |-> -1, tmp |-> 0]
    /\ ac_arrivals = 0
    /\ ac_index = -1

\* accept(): the lowest descriptor number that is not open
LowestFree == CHOOSE fd \in ConnFds : fd \notin ac_open /\ \A g \in ConnFds : (g \notin ac_open => fd <= g)

\* what one accept() call on the non-blocking listener can return
AcceptOutcomes == IF ac_backlog = 0 THEN {"EAGAIN"} ELSE {"ok", "EMFILE"}

\* WebServer::trig_mode: m_LISTENTrigmode is 0 (level-triggered) or 1
\* (edge-triggered), from the -m option
trig_mode(m) ==
    /\ ac_pc = "start"
    /\ ac_mode' = m
    /\ ac_pc' = "idle"
    /\ UNCHANGED <<ac_backlog, ac_event, ac_fd, ac_open, m_user_count, ac_lock, ac_wk,
                   ac_arrivals, ac_index>>

\* a client connects: the connection waits in the backlog; under
\* edge-triggered listening the arrival raises the listener's event
Arrive ==
    /\ ac_arrivals < MaxArrivals
    /\ ac_backlog < MaxBacklog
    /\ ac_pc \in {"idle", "accept"}
    /\ ac_arrivals' = ac_arrivals + 1
    /\ ac_backlog' = ac_backlog + 1
    /\ ac_event' = IF ac_mode = 1 THEN TRUE ELSE ac_event
    /\ UNCHANGED <<ac_mode, ac_pc, ac_fd, ac_open, m_user_count, ac_lock, ac_wk, ac_index>>

\* dealclientdata: one accept() call returning r, and what follows it up
\* to m_ip_lock.lock() in http_conn::init(sockfd, ...).  A connection
\* accepted at the cap is sent the busy message and closed (show_error)
AcceptCall(r) ==
    /\ r \in AcceptOutcomes
    /\ IF r # "ok"
       THEN /\ ac_pc' = "idle"
            /\ UNCHANGED <<ac_backlog, ac_fd, ac_open, ac_lock, ac_index>>
       ELSE IF m_user_count >= MAX_FD
       THEN /\ ac_backlog' = ac_backlog - 1
            /\ ac_pc' = "idle"
            /\ UNCHANGED <<ac_fd, ac_open, ac_lock, ac_index>>
       ELSE /\ ac_lock = "free"
            /\ ac_backlog' = ac_backlog - 1
            /\ ac_fd' = LowestFree
            /\ ac_open' = ac_open \cup {LowestFree}
            /\ ac_index' = LowestFree
            /\ ac_lock' = "dispatcher"
            /\ ac_pc' = "init_locked"
    /\ UNCHANGED <<ac_mode, m_user_count, ac_wk, ac_arrivals>>

\* level-triggered listener: the event is reported while the backlog is
\* not empty; dealclientdata accepts one connection
accept_lt(r) ==
    /\ ac_mode = 0
    /\ ac_pc = "idle"
    /\ ac_backlog > 0
    /\ AcceptCall(r)
    /\ UNCHANGED ac_event

\* edge-triggered listener: the event is consumed and the accept loop
\* is entered
accept_et_enter ==
    /\ ac_mode = 1
    /\ ac_pc = "idle"
    /\ ac_event
    /\ ac_event' = FALSE
    /\ ac_pc' = "accept"
    /\ UNCHANGED <<ac_mode, ac_backlog, ac_fd, ac_open, m_user_count, ac_lock, ac_wk,
                   ac_arrivals, ac_index>>

\* one turn of the while (1) loop of dealclientdata
accept_et(r) ==
    /\ ac_mode = 1
    /\ ac_pc = "accept"
    /\ AcceptCall(r)
    /\ UNCHANGED ac_event

\* init(sockfd, ...): ++m_ip_counts[m_ip] done, m_ip_lock.unlock()
init_unlock ==
    /\ ac_pc = "init_locked"
    /\ ac_lock' = "free"
    /\ ac_pc' = "init_rest"
    /\ UNCHANGED <<ac_mode, ac_backlog, ac_event, ac_fd, ac_open, m_user_count, ac_wk,
                   ac_arrivals, ac_index>>

\* init(sockfd, ...): addfd; m_user_count++; then timer() adds the timer
\* and dealclientdata returns (LT) or loops (ET)
init_rest ==
    /\ ac_pc = "init_rest"
    /\ m_user_count' = m_user_count + 1
    /\ ac_pc' = IF ac_mode = 1 THEN "accept" ELSE "idle"
    /\ ac_fd' = -1
    /\ UNCHANGED <<ac_mode, ac_backlog, ac_event, ac_open, ac_lock, ac_wk, ac_arrivals,
                   ac_index>>

\* close_conn(true) by the dispatcher (timer tick, hang-up, failed read or
\* write): m_sockfd != -1, m_ip_lock.lock()
close_lock(fd) ==
    /\ ac_pc = "idle"
    /\ fd \in ac_open
    /\ ac_lock = "free"
    /\ ac_lock' = "dispatcher"
    /\ ac_fd' = fd
    /\ ac_index' = fd
    /\ ac_pc' = "close_locked"
    /\ UNCHANGED <<ac_mode, ac_backlog, ac_event, ac_open, m_user_count, ac_wk,
                   ac_arrivals>>

\* close_conn: the entry of m_ip_counts updated, m_ip_lock.unlock()
close_unlock ==
    /\ ac_pc = "close_locked"
    /\ ac_lock' = "free"
    /\ ac_pc' = "close_rest"
    /\ UNCHANGED <<ac_mode, ac_backlog, ac_event, ac_fd, ac_open, m_user_count, ac_wk,
                   ac_arrivals, ac_index>>

\* close_conn: removefd(); m_sockfd = -1; m_user_count--
close_rest ==
    /\ ac_pc = "close_rest"
    /\ ac_open' = ac_open \ {ac_fd}
    /\ m_user_count' = m_user_count - 1
    /\ ac_fd' = -1
    /\ ac_pc' = "idle"
    /\ UNCHANGED <<ac_mode, ac_backlog, ac_event, ac_lock, ac_wk, ac_arrivals, ac_index>>

\* a worker in process(): process_write failed, close_conn() is called;
\* m_sockfd != -1, m_ip_lock.lock()
wk_close_lock(fd) ==
    /\ ac_wk.pc = "idle"
    /\ fd \in ac_open
    /\ ac_fd # fd \/ ac_pc \in {"close_locked", "close_rest"}
    /\ ac_lock = "free"
    /\ ac_lock' = "worker"
    /\ ac_wk' = [pc |-> "locked", fd |-> fd, tmp |-> 0]
    /\ UNCHANGED <<ac_mode, ac_backlog, ac_event, ac_pc, ac_fd, ac_open, m_user_count,
                   ac_arrivals, ac_index>>

wk_close_unlock ==
    /\ ac_wk.pc = "locked"
    /\ ac_lock' = "free"
    /\ ac_wk' = [ac_wk EXCEPT !.pc = "remove"]
    /\ UNCHANGED <<ac_mode, ac_backlog, ac_event, ac_pc, ac_fd, ac_open, m_user_count,
                   ac_arrivals, ac_index>>

\* the worker's removefd(); m_sockfd = -1; and the load of m_user_count--
wk_close_remove ==
    /\ ac_wk.pc = "remove"
    /\ ac_open' = ac_open \ {ac_wk.fd}
    /\ ac_wk' = [ac_wk EXCEPT !.pc = "store", !.tmp = m_user_count]
    /\ UNCHANGED <<ac_mode, ac_backlog, ac_event, ac_pc, ac_fd, m_user_count, ac_lock,
                   ac_arrivals, ac_index>>

\* the store of the worker's m_user_count--
wk_close_store ==
    /\ ac_wk.pc = "store"
    /\ m_user_count' = ac_wk.tmp - 1
    /\ ac_wk' = [pc |-> "idle", fd |-> -1, tmp |-> 0]
    /\ UNCHANGED <<ac_mode, ac_backlog, ac_event, ac_pc, ac_fd, ac_open, ac_lock,
                   ac_arrivals, ac_index>>

notA == <<qvars, pvars, cvars, svars, ivars, uvars, tvars, gvars, wvars, rvars, bvars, lvars>>

ANext ==
    \/ /\ \E m \in {0, 1} : trig_mode(m)
       /\ UNCHANGED notA
    \/ /\ Arrive
       /\ UNCHANGED notA
    \/ /\ \E r \in {"ok", "EMFILE"} : accept_lt(r)
       /\ UNCHANGED notA
    \/ /\ accept_et_enter
       /\ UNCHANGED notA
    \/ /\ \E r \in {"ok", "EMFILE", "EAGAIN"} : accept_et(r)
       /\ UNCHANGED notA
    \/ /\ init_unlock
       /\ UNCHANGED notA
    \/ /\ init_rest
       /\ UNCHANGED notA
    \/ /\ \E fd \in ConnFds : close_lock(fd)
       /\ UNCHANGED notA
    \/ /\ close_unlock
       /\ UNCHANGED notA
    \/ /\ close_rest
       /\ UNCHANGED notA
    \/ /\ \E fd \in ConnFds : wk_close_lock(fd)
       /\ UNCHANGED notA
    \/ /\ wk_close_unlock
       /\ UNCHANGED notA
    \/ /\ wk_close_remove
       /\ UNCHANGED notA
    \/ /\ wk_close_store
       /\ UNCHANGED notA

(***************************************************************************)
(* The alarm, the signal pipe and WebServer::eventLoop                     *)
(*   (src/core/webserver.cpp, src/timer/timer_list.cpp)                    *)
(*                                                                         *)
(* eventListen arms alarm(TIMESLOT).  Utils::sig_handler writes the signal *)
(* number into the pipe; the pipe's read end is registered level-triggered *)
(* and dealwithsignal drains it.  The loop ticks after the batch in which  *)
(* a SIGALRM was drained, and Utils::timer_handler re-arms the alarm.      *)
(***************************************************************************)
GInit ==
    /\ sg_alarm = TRUE
    /\ sg_pipe = <<>>
    /\ sg_timeout = FALSE
    /\ sg_stop = FALSE
    /\ sg_pc = "epoll_wait"
    /\ sg_batch = [others |-> 0, pipe |-> FALSE]
    /\ sg_last = "none"

HasByte(sig) == \E i \in 1..Len(sg_pipe) : sg_pipe[i] = sig

\* timer_handler: tick(), then alarm(m_TIMESLOT)
RearmMutant == FALSE

Rearm == TRUE

\* a signal handled on the dispatcher's thread while it is in epoll_wait
\* makes epoll_wait return -1 with EINTR: the for loop sees no event
Interrupted(intr) ==
    IF intr /\ sg_pc = "epoll_wait"
    THEN /\ sg_pc' = "batch"
         /\ sg_batch' = [others |-> 0, pipe |-> FALSE]
    ELSE UNCHANGED <<sg_pc, sg_batch>>

\* the alarm expires: SIGALRM is delivered and Utils::sig_handler sends
\* its number into the pipe
sig_alarm(intr) ==
    /\ sg_alarm
    /\ sg_pc # "exit"
    /\ sg_alarm' = FALSE
    /\ sg_pipe' = Append(sg_pipe, "SIGALRM")
    /\ sg_last' = "alarm"
    /\ Interrupted(intr)
    /\ UNCHANGED <<sg_timeout, sg_stop>>

\* SIGTERM is sent to the server: sig_handler sends its number
sig_term(intr) ==
    /\ sg_pc # "exit"
    /\ Len(sg_pipe) < MaxSignals
    /\ ~ HasByte("SIGTERM")
    /\ sg_pipe' = Append(sg_pipe, "SIGTERM")
    /\ sg_last' = "term"
    /\ Interrupted(intr)
    /\ UNCHANGED <<sg_alarm, sg_timeout, sg_stop>>

\* epoll_wait returns a batch: n events of other descriptors and the
\* pipe's event while the pipe holds bytes; or it fails with an error
\* other than EINTR, which ends the loop
epoll_wait(n, r) ==
    /\ sg_pc = "epoll_wait"
    /\ IF r = "fail"
       THEN /\ sg_pc' = "exit"
            /\ UNCHANGED sg_batch
       ELSE /\ n > 0 \/ sg_pipe # <<>>
            /\ sg_pc' = "batch"
            /\ sg_batch' = [others |-> n, pipe |-> sg_pipe # <<>>]
    /\ sg_last' = "wait"
    /\ UNCHANGED <<sg_alarm, sg_pipe, sg_timeout, sg_stop>>

\* an event of the batch that belongs to the listener or to a connection
handle_event ==
    /\ sg_pc = "batch"
    /\ sg_batch.others > 0
    /\ sg_batch' = [sg_batch EXCEPT !.others = @ - 1]
    /\ sg_last' = "event"
    /\ UNCHANGED <<sg_alarm, sg_pipe, sg_timeout, sg_stop, sg_pc>>

\* dealwithsignal: recv() takes every byte of the pipe; SIGALRM sets
\* timeout, SIGTERM sets stop_server
recv_signals ==
    /\ sg_pc = "batch"
    /\ sg_batch.pipe
    /\ sg_timeout' = (sg_timeout \/ HasByte("SIGALRM"))
    /\ sg_stop' = (sg_stop \/ HasByte("SIGTERM"))
    /\ sg_pipe' = <<>>
    /\ sg_batch' = [sg_batch EXCEPT !.pipe = FALSE]
    /\ sg_last' = "recv"
    /\ UNCHANGED <<sg_alarm, sg_pc>>

\* the end of the for loop: if (timeout) { timer_handler(); timeout =
\* false; } and the test of while (!stop_server)
end_batch ==
    /\ sg_pc = "batch"
    /\ sg_batch.others = 0
    /\ ~ sg_batch.pipe
    /\ IF sg_timeout
       THEN /\ sg_alarm' = (IF Rearm THEN TRUE ELSE sg_alarm)
            /\ sg_timeout' = FALSE
            /\ sg_last' = "tick"
       ELSE /\ sg_last' = "notick"
            /\ UNCHANGED <<sg_alarm, sg_timeout>>
    /\ sg_pc' = IF sg_stop THEN "exit" ELSE "epoll_wait"
    /\ UNCHANGED <<sg_pipe, sg_stop, sg_batch>>

notG == <<qvars, pvars, cvars, svars, ivars, uvars, tvars, avars, wvars, rvars, bvars, lvars>>

GNext ==
    \/ /\ \E intr \in BOOLEAN : sig_alarm(intr)
       /\ UNCHANGED notG
    \/ /\ \E intr \in BOOLEAN : sig_term(intr)
       /\ UNCHANGED notG
    \/ /\ \E n \in 0..MaxEvents, r \in {"ok", "fail"} : epoll_wait(n, r)
       /\ UNCHANGED notG
    \/ /\ handle_event
       /\ UNCHANGED notG
    \/ /\ recv_signals
       /\ UNCHANGED notG
    \/ /\ end_batch
       /\ UNCHANGED notG

(***************************************************************************)
(* threadpool: m_workqueue, m_queuelocker and m_queuestat                  *)
(*   (include/threadpool.h, include/thread_sync.h)                         *)
(*                                                                         *)
(* append pushes under the mutex and posts the semaphore after unlocking.  *)
(* run waits on the semaphore, takes the front of the queue under the      *)
(* mutex and runs the task with the mutex released.  sem::wait returns     *)
(* sem_wait() == 0 and run does not look at it: a sem_wait interrupted by  *)
(* a signal handler (SIGALRM and SIGTERM are handled without SA_RESTART    *)
(* and blocked in no thread) returns without taking a unit.                *)
(***************************************************************************)
Threads == 1..NThreads

WInit ==
    /\ tp_queue = <<>>
    /\ tp_sem = 0
    /\ tp_lock = 0
    /\ tp_pc = [w \in Threads |-> "wait"]
    /\ tp_task = [w \in Threads |-> 0]
    /\ tp_app = [pc |-> "idle", task |-> 0]
    /\ tp_next = 1
    /\ tp_ran = [t \in 1..MaxTasks |-> 0]
    /\ tp_hist = [intr |-> FALSE, posts |-> 0, accepted |-> 0, rejected |-> 0]

\* what sem_wait can return to a thread
WaitOutcomes == (IF tp_sem > 0 THEN {"ok"} ELSE {}) \cup {"EINTR"}

\* append / append_p: m_queuelocker.lock()
append_lock ==
    /\ tp_app.pc = "idle"
    /\ tp_next <= MaxTasks
    /\ tp_lock = 0
    /\ tp_lock' = -1
    /\ tp_app' = [pc |-> "locked", task |-> tp_next]
    /\ tp_next' = tp_next + 1
    /\ UNCHANGED <<tp_queue, tp_sem, tp_pc, tp_task, tp_ran, tp_hist>>

\* append: the size test, push_back and unlock; a full queue rejects
append_push ==
    /\ tp_app.pc = "locked"
    /\ tp_lock' = 0
    /\ IF Len(tp_queue) >= MaxQueue
       THEN /\ tp_app' = [pc |-> "idle", task |-> 0]
            /\ tp_hist' = [tp_hist EXCEPT !.rejected = @ + 1]
            /\ UNCHANGED tp_queue
       ELSE /\ tp_queue' = Append(tp_queue, tp_app.task)
            /\ tp_app' = [tp_app EXCEPT !.pc = "post"]
            /\ tp_hist' = [tp_hist EXCEPT !.accepted = @ + 1]
    /\ UNCHANGED <<tp_sem, tp_pc, tp_task, tp_next, tp_ran>>

\* append: m_queuestat.post(); return true
append_post ==
    /\ tp_app.pc = "post"
    /\ tp_sem' = tp_sem + 1
    /\ tp_app' = [pc |-> "idle", task |-> 0]
    /\ tp_hist' = [tp_hist EXCEPT !.posts = @ + 1]
    /\ UNCHANGED <<tp_queue, tp_lock, tp_pc, tp_task, tp_next, tp_ran>>

\* run: m_queuestat.wait() returns, with a unit taken or interrupted
run_wait(w, r) ==
    /\ tp_pc[w] = "wait"
    /\ r \in WaitOutcomes
    /\ tp_sem' = IF r = "ok" THEN tp_sem - 1 ELSE tp_sem
    /\ tp_hist' = IF r = "ok" THEN tp_hist ELSE [tp_hist EXCEPT !.intr = TRUE]
    /\ tp_pc' = [tp_pc EXCEPT ![w] = "lock"]
    /\ UNCHANGED <<tp_queue, tp_lock, tp_task, tp_app, tp_next, tp_ran>>

\* run: m_queuelocker.lock()
run_lock(w) ==
    /\ tp_pc[w] = "lock"
    /\ tp_lock = 0
    /\ tp_lock' = w
    /\ tp_pc' = [tp_pc EXCEPT ![w] = "locked"]
    /\ UNCHANGED <<tp_queue, tp_sem, tp_task, tp_app, tp_next, tp_ran, tp_hist>>

\* run: the empty test, front, pop_front and unlock
run_pop(w) ==
    /\ tp_pc[w] = "locked"
    /\ tp_lock' = 0
    /\ IF tp_queue = <<>>
       THEN /\ tp_pc' = [tp_pc EXCEPT ![w] = "wait"]
            /\ UNCHANGED <<tp_queue, tp_task>>
       ELSE /\ tp_task' = [tp_task EXCEPT ![w] = Head(tp_queue)]
            /\ tp_queue' = Tail(tp_queue)
            /\ tp_pc' = [tp_pc EXCEPT ![w] = "run"]
    /\ UNCHANGED <<tp_sem, tp_app, tp_next, tp_ran, tp_hist>>

\* run: read_once / process / write of the request, then the loop
run_task(w) ==
    /\ tp_pc[w] = "run"
    /\ tp_ran' = [tp_ran EXCEPT ![tp_task[w]] = @ + 1]
    /\ tp_task' = [tp_task EXCEPT ![w] = 0]
    /\ tp_pc' = [tp_pc EXCEPT ![w] = "wait"]
    /\ UNCHANGED <<tp_queue, tp_sem, tp_lock, tp_app, tp_next, tp_hist>>

notW == <<qvars, pvars, cvars, svars, ivars, uvars, tvars, avars, gvars, rvars, bvars, lvars>>

WNext ==
    \/ /\ append_lock
       /\ UNCHANGED notW
    \/ /\ append_push
       /\ UNCHANGED notW
    \/ /\ append_post
       /\ UNCHANGED notW
    \/ /\ \E w \in Threads, r \in {"ok", "EINTR"} : run_wait(w, r)
       /\ UNCHANGED notW
    \/ /\ \E w \in Threads : run_lock(w)
       /\ UNCHANGED notW
    \/ /\ \E w \in Threads : run_pop(w)
       /\ UNCHANGED notW
    \/ /\ \E w \in Threads : run_task(w)
       /\ UNCHANGED notW

(***************************************************************************)
(* Registration: the users map, m_lock and the INSERT                      *)
(*   (src/http/http_connection.cpp, do_request, url[1] == '3')             *)
(*                                                                         *)
(* Pool threads run do_request for different connections.  users.find is   *)
(* called before m_lock is taken; under the lock the INSERT is sent and    *)
(* the pair is inserted into users; the page depends on the INSERT.        *)
(***************************************************************************)
RegThreads == 1..NRegThreads

RegNames == {"a", "b"}

NoReg == [pc |-> "idle", name |-> "", found |-> FALSE, res |-> 0, ins |-> FALSE, page |-> ""]

RInit ==
    /\ reg_users = {}
    /\ reg_db = <<>>
    /\ reg_lock = 0
    /\ reg_th = [t \in RegThreads |-> NoReg]
    /\ reg_n = 0

\* what mysql_query returns for the INSERT: 0, or nonzero when the server
\* rejects the statement or the connection fails
QueryResults == {0, 1}

\* the registration branch up to m_lock.lock(): users.find(name)
reg_find(t, name) ==
    /\ reg_th[t].pc = "idle"
    /\ reg_n < MaxRegs
    /\ reg_n' = reg_n + 1
    /\ reg_th' = [reg_th EXCEPT ![t] =
          IF name \in reg_users
          THEN [pc |-> "idle", name |-> name, found |-> TRUE, res |-> 0, ins |-> FALSE,
                page |-> "/pages/registerError.html"]
          ELSE [pc |-> "lock", name |-> name, found |-> FALSE, res |-> 0, ins |-> FALSE,
                page |-> ""]]
    /\ UNCHANGED <<reg_users, reg_db, reg_lock>>

\* m_lock.lock()
reg_lock_take(t) ==
    /\ reg_th[t].pc = "lock"
    /\ reg_lock = 0
    /\ reg_lock' = t
    /\ reg_th' = [reg_th EXCEPT ![t].pc = "locked"]
    /\ UNCHANGED <<reg_users, reg_db, reg_n>>

\* mysql_query(INSERT); users.insert(pair(name, password)); unlock; the
\* page chosen from the INSERT's result
reg_insert(t, res) ==
    /\ reg_th[t].pc = "locked"
    /\ res \in QueryResults
    /\ reg_db' = IF res = 0 THEN Append(reg_db, reg_th[t].name) ELSE reg_db
    /\ reg_users' = reg_users \cup {reg_th[t].name}
    /\ reg_lock' = 0
    /\ reg_th' = [reg_th EXCEPT ![t] =
          [@ EXCEPT !.pc = "idle", !.res = res,
                    !.ins = (reg_th[t].name \notin reg_users),
                    !.page = IF res = 0 THEN "/pages/log.html"
                             ELSE "/pages/registerError.html"]]
    /\ UNCHANGED reg_n

notR == <<qvars, pvars, cvars, svars, ivars, uvars, tvars, avars, gvars, wvars, bvars, lvars>>

RNext ==
    \/ /\ \E t \in RegThreads, name \in RegNames : reg_find(t, name)
       /\ UNCHANGED notR
    \/ /\ \E t \in RegThreads : reg_lock_take(t)
       /\ UNCHANGED notR
    \/ /\ \E t \in RegThreads, res \in QueryResults : reg_insert(t, res)
       /\ UNCHANGED notR

(***************************************************************************)
(* The body region of a response: mmap, malloc and http_conn::unmap        *)
(*   (src/http/http_connection.cpp)                                        *)
(*                                                                         *)
(* One connection slot.  do_request maps the file of a FILE_REQUEST and    *)
(* handle_php_request keeps the subprocess output in a malloc'ed buffer;   *)
(* m_file_address points at the region while the response is sent.  A      *)
(* region is numbered when it is acquired; bd_rel counts its releases.     *)
(***************************************************************************)
Regions == 1..MaxRegions

BInit ==
    /\ bd_open = FALSE
    /\ bd_conn = [m_file_address |-> 0, m_is_mmap |-> FALSE, m_php_content |-> 0,
                  bytes_to_send |-> 0, m_linger |-> FALSE]
    /\ bd_next = 1
    /\ bd_rel = [r \in Regions |-> 0]
    /\ bd_last = "none"

\* m_file_address values: 0 is NULL, -1 the data of m_dynamic_content,
\* a positive number a mapped or malloc'ed region
\* http_conn::init(): the pointers are set to NULL, nothing is released
bd_init(c) ==
    [c EXCEPT !.m_file_address = 0, !.m_is_mmap = FALSE, !.m_php_content = 0,
              !.bytes_to_send = 0, !.m_linger = FALSE]

\* unmap(): the region munmap or free is called on
ReleasedByUnmap(c) ==
    IF c.m_is_mmap /\ c.m_file_address # 0 THEN {c.m_file_address}
    ELSE IF c.m_file_address # 0 /\ c.m_file_address = c.m_php_content
    THEN {c.m_php_content}
    ELSE {}

\* unmap(): the members afterwards
bd_unmap(c) ==
    [c EXCEPT !.m_file_address = 0, !.m_is_mmap = FALSE,
              !.m_php_content = IF ~ (c.m_is_mmap /\ c.m_file_address # 0)
                                   /\ c.m_file_address # 0
                                   /\ c.m_file_address = c.m_php_content
                                THEN 0 ELSE c.m_php_content]

Release(S) == [r \in Regions |-> IF r \in S THEN bd_rel[r] + 1 ELSE bd_rel[r]]

\* dealclientdata -> init(sockfd, ...) -> init(): the slot serves a new
\* connection
bd_accept ==
    /\ ~ bd_open
    /\ bd_open' = TRUE
    /\ bd_conn' = bd_init(bd_conn)
    /\ bd_last' = "accept"
    /\ UNCHANGED <<bd_next, bd_rel>>

\* process(): do_request answers with a file, with subprocess output, with
\* generated content or with an error page, and process_write builds the
\* response or fails (then process() calls close_conn)
bd_process(kind, linger, built) ==
    /\ bd_open
    /\ bd_conn.bytes_to_send = 0
    /\ bd_next <= MaxRegions
    /\ LET acquired == kind \in {"file", "php"}
           c1 == [bd_conn EXCEPT
                    !.m_linger = linger,
                    !.m_file_address = CASE acquired -> bd_next
                                         [] kind = "dynamic" -> -1
                                         [] OTHER -> 0,
                    !.m_is_mmap = (kind = "file"),
                    !.m_php_content = IF kind = "php" THEN bd_next ELSE 0]
       IN  /\ bd_next' = IF acquired THEN bd_next + 1 ELSE bd_next
           /\ IF built
              THEN /\ bd_conn' = [c1 EXCEPT !.bytes_to_send = BodyLen]
                   /\ bd_open' = TRUE
                   /\ bd_last' = "process"
              ELSE /\ bd_conn' = c1
                   /\ bd_open' = FALSE
                   /\ bd_last' = "process_close"
    /\ UNCHANGED bd_rel

\* write(): writev sends n bytes; when nothing is left, unmap(), then
\* init() for keep-alive, else write returns false and the caller closes
bd_write(n) ==
    /\ bd_open
    /\ bd_conn.bytes_to_send > 0
    /\ n \in 1..bd_conn.bytes_to_send
    /\ IF n < bd_conn.bytes_to_send
       THEN /\ bd_conn' = [bd_conn EXCEPT !.bytes_to_send = @ - n]
            /\ bd_last' = "write_part"
            /\ UNCHANGED <<bd_open, bd_rel>>
       ELSE /\ bd_rel' = Release(ReleasedByUnmap(bd_conn))
            /\ bd_conn' = IF bd_conn.m_linger THEN bd_init(bd_unmap(bd_conn))
                          ELSE [bd_unmap(bd_conn) EXCEPT !.bytes_to_send = 0]
            /\ bd_open' = bd_conn.m_linger
            /\ bd_last' = "write_done"
    /\ UNCHANGED bd_next

\* write(): writev fails with an error other than EAGAIN: unmap(), return
\* false, and the caller closes the connection
bd_write_error ==
    /\ bd_open
    /\ bd_conn.bytes_to_send > 0
    /\ bd_rel' = Release(ReleasedByUnmap(bd_conn))
    /\ bd_conn' = bd_unmap(bd_conn)
    /\ bd_open' = FALSE
    /\ bd_last' = "write_error"
    /\ UNCHANGED bd_next

\* close_conn from the timer tick or a hang-up event
bd_close ==
    /\ bd_open
    /\ bd_open' = FALSE
    /\ bd_last' = "close"
    /\ UNCHANGED <<bd_conn, bd_next, bd_rel>>

notB == <<qvars, pvars, cvars, svars, ivars, uvars, tvars, avars, gvars, wvars, rvars, lvars>>

BNext ==
    \/ /\ bd_accept
       /\ UNCHANGED notB
    \/ /\ \E kind \in {"file", "php", "dynamic", "error"}, linger \in BOOLEAN,
             built \in BOOLEAN : bd_process(kind, linger, built)
       /\ UNCHANGED notB
    \/ /\ \E n \in 1..BodyLen : bd_write(n)
       /\ UNCHANGED notB
    \/ /\ bd_write_error
       /\ UNCHANGED notB
    \/ /\ bd_close
       /\ UNCHANGED notB

(***************************************************************************)
(* Log::write_log in asynchronous mode                                     *)
(*   (src/log/log.cpp, include/log.h, include/blocking_queue.h)            *)
(*                                                                         *)
(* A logging thread formats its line, asks m_log_queue->full() and then    *)
(* either calls push or writes the line itself; each of full() and push    *)
(* takes the queue's mutex for itself.  The drain thread pops a line and   *)
(* writes it.                                                              *)
(***************************************************************************)
LogThreads == 1..NLogThreads

LInit ==
    /\ lg_queue = <<>>
    /\ lg_file = <<>>
    /\ lg_th = [t \in LogThreads |-> [pc |-> "idle", line |-> 0]]
    /\ lg_drain = 0
    /\ lg_next = 1
    /\ lg_pushed = [ret |-> TRUE, line |-> 0]

\* write_log up to the test m_is_async && !m_log_queue->full(): with
\* the queue full the line is written with fputs by the caller
log_check(t) ==
    /\ lg_th[t].pc = "idle"
    /\ lg_next <= MaxLines
    /\ lg_next' = lg_next + 1
    /\ IF Len(lg_queue) >= LogCap
       THEN /\ lg_file' = Append(lg_file, lg_next)
            /\ UNCHANGED lg_th
       ELSE /\ lg_th' = [lg_th EXCEPT ![t] = [pc |-> "push", line |-> lg_next]]
            /\ UNCHANGED lg_file
    /\ UNCHANGED <<lg_queue, lg_drain, lg_pushed>>

\* m_log_queue->push(log_str): a full queue returns false and stores
\* nothing; write_log does not look at the result
log_push(t) ==
    /\ lg_th[t].pc = "push"
    /\ IF Len(lg_queue) >= LogCap
       THEN /\ lg_pushed' = [ret |-> FALSE, line |-> lg_th[t].line]
            /\ UNCHANGED lg_queue
       ELSE /\ lg_pushed' = [ret |-> TRUE, line |-> lg_th[t].line]
            /\ lg_queue' = Append(lg_queue, lg_th[t].line)
    /\ lg_th' = [lg_th EXCEPT ![t] = [pc |-> "idle", line |-> 0]]
    /\ UNCHANGED <<lg_file, lg_drain, lg_next>>

\* async_write_log: m_log_queue->pop(single_log)
drain_pop ==
    /\ lg_drain = 0
    /\ lg_queue # <<>>
    /\ lg_drain' = Head(lg_queue)
    /\ lg_queue' = Tail(lg_queue)
    /\ UNCHANGED <<lg_file, lg_th, lg_next, lg_pushed>>

\* async_write_log: fputs(single_log) under m_mutex
drain_write ==
    /\ lg_drain # 0
    /\ lg_file' = Append(lg_file, lg_drain)
    /\ lg_drain' = 0
    /\ UNCHANGED <<lg_queue, lg_th, lg_next, lg_pushed>>

notL == <<qvars, pvars, cvars, svars, ivars, uvars, tvars, avars, gvars, wvars, rvars, bvars>>

LNext ==
    \/ /\ \E t \in LogThreads : log_check(t)
       /\ UNCHANGED notL
    \/ /\ \E t \in LogThreads : log_push(t)
       /\ UNCHANGED notL
    \/ /\ drain_pop
       /\ UNCHANGED notL
    \/ /\ drain_write
       /\ UNCHANGED notL

(***************************************************************************)
(* Specifications                                                          *)
(***************************************************************************)
Init ==
    /\ QInit
    /\ PInit
    /\ CInit
    /\ SInit
    /\ IInit
    /\ UInit
    /\ TInit
    /\ AInit
    /\ GInit
    /\ WInit
    /\ RInit
    /\ BInit
    /\ LInit

SpecQueue == Init /\ [][QNext]_vars
SpecPool  == Init /\ [][PNext]_vars
SpecConn  == Init /\ [][CNext]_vars
Spec      == Init /\ [][SNext]_vars
SpecIp    == Init /\ [][INext]_vars
SpecSite  == Init /\ [][UNext]_vars
SpecTimer == Init /\ [][TNext]_vars
SpecAccept == Init /\ [][ANext]_vars
SpecWork  == Init /\ [][WNext]_vars
SpecReg   == Init /\ [][RNext]_vars
SpecBody  == Init /\ [][BNext]_vars
SpecLog   == Init /\ [][LNext]_vars

\* the server under fair scheduling: time passes, the dispatcher handles
\* the signal pipe and leaves its wait loop, and the pool's threads take
\* and finish their tasks; what the clients do is not constrained
SpecFair ==
    /\ Init
    /\ [][SNext]_vars
    /\ WF_svars(alarm)
    /\ WF_svars(dealwithsignal)
    /\ WF_svars(timer_handler)
    /\ WF_svars(wait_improv)
    /\ WF_svars(wait_timeout)
    /\ \A w \in Workers :
          /\ WF_svars(run_take(w))
          /\ WF_svars(\E ok \in BOOLEAN, po \in ProcessOutcomes,
                         wo \in {"empty", "eagain", "error", "done"} : run_io(w, ok, po, wo))
          /\ WF_svars(run_post(w))

\* the alarm expires once armed, and the dispatcher is never stuck:
\* epoll_wait returns when something is ready and every handler returns
SpecSignalFair ==
    /\ Init
    /\ [][GNext]_vars
    /\ WF_gvars(\E intr \in BOOLEAN : sig_alarm(intr))
    /\ WF_gvars(\E n \in 0..MaxEvents : epoll_wait(n, "ok"))
    /\ WF_gvars(handle_event)
    /\ WF_gvars(recv_signals)
    /\ WF_gvars(end_batch)

(***************************************************************************)
(* Claims about block_queue                                                *)
(***************************************************************************)
IsPrefix(s, t) == Len(s) <= Len(t) /\ \A i \in 1..Len(s) : s[i] = t[i]

\* C6: pop returns the items in exactly the order in which their pushes
\* succeeded, each once (the popped history is a prefix of the pushed
\* history and the ring holds exactly the rest), and 0 <= size <= capacity.
C6_QueueFIFO ==
    /\ IsPrefix(q_popped, q_pushed)
    /\ QueueContents = SubSeq(q_pushed, Len(q_popped) + 1, Len(q_pushed))
    /\ m_size \in 0..m_max_size

\* C6 witness: the ring has wrapped around and two items were popped while a
\* later one is still stored.
C6_Witness ==
    /\ Len(q_popped) >= 2
    /\ m_size >= 1
    /\ m_back < m_front

\* C7: a push on a full queue returns false and leaves the contents as they
\* were; a push is rejected only when the queue is full; a push that returns
\* true has appended its item.
C7_PushNeverLoses ==
    /\ q_lastPush.full => (~q_lastPush.ret /\ q_lastPush.after = q_lastPush.before)
    /\ ~q_lastPush.ret => (q_lastPush.item = 0 \/ q_lastPush.full)
    /\ q_lastPush.ret => q_lastPush.after = Append(q_lastPush.before, q_lastPush.item)
    /\ Len(QueueContents) + Len(q_popped) = Len(q_pushed)

\* C7 witness: two pushes in a row were rejected by a full queue.
C7_Witness ==
    /\ q_lastPush.full /\ ~q_lastPush.ret
    /\ q_calls - Len(q_pushed) >= 2
    /\ m_size = m_max_size

\* C29: a timed pop returns none only when its deadline has expired with
\* the queue empty; a consumer woken before the deadline that finds the
\* queue empty waits again.
C29_NoneOnlyAtDeadline == \A c \in Consumers : q_timed[c] # "early"

\* C30: front() gives the item the next pop would return and back() the
\* most recently pushed item, neither changes the queue, and both report
\* failure on an empty queue.
C30_FrontBackSnapshot ==
    /\ q_query.op \in {"front", "back"} =>
           (q_query.ok = (q_query.contents # <<>>))
    /\ (q_query.op = "front" /\ q_query.ok) =>
           q_query.value = Head(q_query.contents)
    /\ (q_query.op = "back" /\ q_query.ok) =>
           q_query.value = q_query.contents[Len(q_query.contents)]

\* the same for back() alone
C30_BackSnapshot ==
    q_query.op = "back" =>
        /\ q_query.ok = (q_query.contents # <<>>)
        /\ q_query.ok => q_query.value = q_query.contents[Len(q_query.contents)]


(***************************************************************************)
(* Claims about connection_pool                                            *)
(***************************************************************************)
Holders(h) == {t \in PoolThreads : pcon[t] = h}

\* C8: acquire never returns without a handle (it blocks until a release),
\* no handle has two holders, and free + in-use handles = K.
C8_AcquireBlocks ==
    /\ \A t \in PoolThreads : ppc[t] # "gotnull"
    /\ \A h \in Handles : Cardinality(Holders(h)) <= 1
    /\ m_FreeConn + m_CurConn = MaxConn

\* the part of C8 the code keeps: exclusive handles and the counters
C8_HandlesExclusive ==
    /\ \A h \in Handles : Cardinality(Holders(h)) <= 1
    /\ m_FreeConn + m_CurConn = MaxConn
    /\ m_FreeConn = Len(connList)


(***************************************************************************)
(* Claims about one http_conn                                              *)
(***************************************************************************)
\* the bytes read_once has stored since the last init()
Received == [bs |-> SubSeq(c_wire.explicit, 1, c_sent), np |-> conn.pad]

\* the parser run once over the same bytes arriving in a single fill
SingleFill ==
    process_read(read_once(init_conn(NoConn), Received.bs, Received.np).c)

\* what a parser run has established about the request
Outcome(c) ==
    [code   |-> c.code,
     state  |-> c.m_check_state,
     method |-> c.m_method,
     linger |-> c.m_linger,
     length |-> c.m_content_length,
     body   |-> IF c.code # "NO_REQUEST" /\ c.m_check_state = "CONTENT"
                THEN c.m_string ELSE -1]

AfterParse == c_last \in {"read_more", "read_resp", "resp_fail"}

\* C3: however the bytes of a request were split into read fills, with the
\* parser run after each fill, the parser has the same outcome (completion,
\* method, headers, body start and length) as for a single fill.
C3_Restartable == AfterParse => Outcome(conn) = Outcome(SingleFill)

\* C5: after write() has completed a keep-alive response the connection is
\* open with read interest re-armed, the parser is in the request-line state
\* and every cursor and send counter is zero.
C5_KeepAliveReset ==
    c_last = "wrote_keep" =>
        /\ conn.m_sockfd # -1
        /\ conn.ev = "IN"
        /\ conn.m_check_state = "REQUESTLINE"
        /\ conn.m_read_idx = 0
        /\ conn.m_checked_idx = 0
        /\ conn.m_start_line = 0
        /\ conn.m_write_idx = 0
        /\ conn.bytes_to_send = 0
        /\ conn.bytes_have_send = 0

\* a keep-alive response with a second iovec was sent in more than one writev
C5_Witness ==
    /\ c_last = "wrote_keep"
    /\ c_phase = "idle"
    /\ conn.m_iv_count = 2
    /\ conn.iv1_base > 0

\* C10: after any sequence of read-drains and parser runs,
\* parse cursor <= read cursor <= size of the read buffer.
C10_CursorOrder ==
    /\ 0 <= conn.m_checked_idx
    /\ conn.m_checked_idx <= conn.m_read_idx
    /\ conn.m_read_idx <= conn.size

\* the read buffer grew to its largest size and was filled to the last byte
C10_Witness ==
    /\ c_last = "read_fail"
    /\ conn.size = MaxReadBuf
    /\ conn.m_read_idx = conn.size
    /\ conn.m_checked_idx > 0

\* C11: once the parser has handled a Content-Length header announcing L
\* bytes, 0 <= L <= 200 MiB, the read buffer is at least (parse cursor at
\* that moment) + L + 1 bytes large.
C11_BufferHoldsBody ==
    (/\ AfterParse
     /\ conn.len_idx >= 0
     /\ conn.m_content_length \in 0..kMaxBodySize)
    => conn.len_after >= conn.len_idx + conn.m_content_length + 1

\* what the Content-Length branch does keep: the buffer is at least
\* min(L + 4096, 2 * READ_BUFFER_SIZE) bytes large
C11_BufferAtLeastNeeded ==
    (/\ AfterParse
     /\ conn.len_idx >= 0
     /\ conn.m_content_length \in 0..kMaxBodySize)
    => conn.len_after >= Min(conn.m_content_length + 4096, READ_BUFFER_SIZE * 2)

\* C12: a request announcing more than 200 MiB gets a response whose status
\* line says 413, the header parse leaves the size of the read buffer as it
\* was, and no read buffer is ever larger than 200 MiB + 4 KiB.
C12_OversizeRejected ==
    /\ conn.size <= MaxReadBuf
    /\ (AfterParse /\ conn.m_content_length > kMaxBodySize)
        => /\ c_last = "read_resp"
           /\ conn.code = "DYNAMIC_REQUEST"
           /\ conn.status_line = 413
           /\ conn.len_after = conn.len_before
           /\ conn.size = conn.len_before

\* a 413 response is ready for a request that also asked for keep-alive
C12_Witness ==
    /\ c_last = "read_resp"
    /\ conn.m_content_length = kMaxBodySize + 1
    /\ conn.m_linger
    /\ conn.status_line = 413

\* the parser stopped at a malformed line terminator in the request line or
\* in the headers
AtBadLine ==
    /\ AfterParse
    /\ conn.m_check_state \in {"REQUESTLINE", "HEADER"}
    /\ conn.code = "NO_REQUEST"
    /\ parse_line(conn).status = "LINE_BAD"

\* C17: a malformed request line, and a malformed line terminator in the
\* request line or the headers, are answered with status 400, and the
\* connection is closed once that response has been written (the response
\* is not a keep-alive one).
C17_MalformedGets400 ==
    /\ AtBadLine => (c_last # "read_more" /\ conn.status_line = 400)
    /\ (AfterParse /\ conn.code = "BAD_REQUEST")
        => (conn.status_line = 400 /\ ~conn.m_linger)

\* the part of C17 the code keeps: a malformed request line gets a 400
\* response that closes the connection
C17_BadRequestLine ==
    (AfterParse /\ conn.code = "BAD_REQUEST")
        => (conn.status_line = 400 /\ ~conn.m_linger)

\* C18: once a 413 response is under way the connection does not go back to
\* waiting for a request: it is closed when the response has been written,
\* whatever the request said about keep-alive.
C18_ClosedAfter413 ==
    [][(conn.status_line = 413 /\ c_phase \in {"ready_w", "writing"})
          => c_phase' # "idle"]_vars

\* index of the first CR LF of w at or after i; 0 if there is none
NextCRLF(w, i) ==
    LET at(j) == w[j] = "CR" /\ w[j + 1] = "LF"
        S     == {j \in i..(Len(w) - 1) : at(j)}
    IN  IF S = {} THEN 0 ELSE CHOOSE j \in S : \A k \in S : j <= k

\* the header lines of the request that starts w: the complete lines after
\* the request line, up to the blank line
RECURSIVE HeadersFrom(_, _)
HeadersFrom(w, i) ==
    LET j == NextCRLF(w, i)
    IN  IF j = 0 \/ j = i THEN {}
        ELSE {SubSeq(w, i, j - 1)} \cup HeadersFrom(w, j + 2)

RequestHeaders(w) ==
    LET j == NextCRLF(w, 1) IN IF j = 0 THEN {} ELSE HeadersFrom(w, j + 2)

\* the response to a request is ready and the server has received the
\* request's Expect: 100-continue header
ExpectAnswered ==
    /\ c_last = "read_resp"
    /\ <<"E">> \in RequestHeaders(Received.bs)

\* C19: whenever the final response to a request that carries
\* Expect: 100-continue is ready to be written, the interim line
\* HTTP/1.1 100 Continue has been sent, wherever the Expect header stands
\* among the request's headers.
C19_ContinueBeforeFinal == ExpectAnswered => conn.continue_sent

\* the part of C19 the code keeps: the interim line is sent unless the
\* request is rejected with 413 before the Expect header is parsed
C19_ContinueUnlessRejected ==
    (ExpectAnswered /\ conn.status_line # 413) => conn.continue_sent


\* the bytes of the response, in the order they belong on the wire
ResponseBytes(c) ==
    [k \in 1..(c.m_write_idx + (IF c.m_iv_count = 2 THEN c.body_len ELSE 0)) |->
        IF k <= c.m_write_idx
        THEN [r |-> "h", i |-> k - 1]
        ELSE [r |-> "f", i |-> k - c.m_write_idx - 1]]

\* a response is being written, or the last writev call completed it
InWrite == c_phase \in {"ready_w", "writing"} \/ c_last = "wrote_close"

\* the two descriptors cover the bytes still to send, each inside its region
DescriptorsInside(c) ==
    /\ IovBytes(c) = c.bytes_to_send
    /\ c.iv0_len > 0 =>
           (0 <= c.iv0_base /\ c.iv0_base + c.iv0_len <= c.m_write_idx)
    /\ (c.m_iv_count = 2 /\ c.iv1_len > 0) =>
           (0 <= c.iv1_base /\ c.iv1_base + c.iv1_len <= c.body_len)

\* C22: for every response and every split of it into partial writev
\* calls, the bytes put on the wire are the header bytes followed by the
\* body bytes, each once and in order, and after every partial write the
\* descriptor lengths sum to bytes_to_send and each descriptor points
\* inside its own region.
C22_WritevInOrder ==
    InWrite =>
        /\ IsPrefix(conn.sent, ResponseBytes(conn))
        /\ Len(conn.sent) = conn.bytes_have_send
        /\ c_last = "wrote_close" => conn.sent = ResponseBytes(conn)
        /\ c_last = "write_part" => DescriptorsInside(conn)

\* the offset in the request w of the byte after the blank line that ends
\* the headers (0: the headers have not ended)
BodyStart(w) ==
    LET S == {i \in 4..Len(w) : SubSeq(w, i - 3, i) = CRLF \o CRLF}
    IN  IF S = {} THEN 0 ELSE CHOOSE i \in S : \A k \in S : i <= k

\* the parser is in body state with a positive Content-Length
InBody == conn.m_check_state = "CONTENT" /\ conn.m_content_length > 0

\* C23: once the parser is in body state with Content-Length > 0, no run
\* of it (on the fill that ends the headers or later) has scanned the body
\* for CR/LF, overwritten a body byte other than the terminator at
\* body start + Content-Length, or moved the recorded body start.
C23_BodyByteCounted ==
    InBody =>
        LET start == BodyStart(c_wire.explicit)
        IN  /\ conn.m_start_line = start
            /\ conn.m_checked_idx <= start
            /\ \A i \in (start + 1)..Len(conn.buf) :
                   i - 1 # conn.nul_at => conn.buf[i] = c_wire.explicit[i]

\* the same for the fills that find the parser already in body state
C23_LaterFillsByteCounted ==
    [][(InBody /\ c_phase = "idle") =>
          /\ conn'.m_start_line = conn.m_start_line
          /\ conn'.m_checked_idx = conn.m_checked_idx
          /\ \A i \in 1..Len(conn.buf) :
                 i - 1 # conn'.nul_at => conn'.buf[i] = conn.buf[i]]_cvars

\* the parser has just declared a body complete and handed it to the router
BodyDeclaredComplete ==
    /\ c_last \in {"read_resp", "resp_fail"}
    /\ conn.m_check_state = "CONTENT"
    /\ conn.m_string # -1

\* C24: whenever the parser declares a body complete, the index at which
\* it writes the terminator is at or after the body start and below the
\* read-buffer size, for every Content-Length the header parser accepts
\* (zero, negative and non-numeric text included) and every read history.
C24_TerminatorInBounds ==
    BodyDeclaredComplete =>
        (conn.m_string <= conn.nul_at /\ conn.nul_at < conn.size)

\* the same for the requests with a positive Content-Length
C24_PositiveLengthInBounds ==
    (BodyDeclaredComplete /\ conn.m_content_length > 0) =>
        (conn.m_string <= conn.nul_at /\ conn.nul_at < conn.size)

\* a writev call of write() has just failed with EAGAIN or EINTR
WritevTransient ==
    c_phase = "writing" /\ c_last' \in {"write_again", "write_intr"}

\* a read_once call took bytes off the socket until recv reported EAGAIN
ReadTransient ==
    c_phase = "idle" /\ conn'.m_read_idx > conn.m_read_idx

\* C25: a would-block or interrupted result of recv or writev is not
\* treated as an error: the connection stays open, its buffers, cursors
\* and descriptors are kept, and the call is retried or the one-shot
\* registration is re-armed.
C25_TransientNotError ==
    [][/\ WritevTransient =>
              /\ conn'.m_sockfd # -1
              /\ conn' = [conn EXCEPT !.ev = conn'.ev]
              /\ conn'.ev = "OUT" \/ c_phase' = "writing"
       /\ ReadTransient =>
              \/ conn'.m_sockfd # -1
              \/ c_last' = "resp_fail"
              \/ conn'.m_read_idx >= MaxReadBuf]_vars

\* the same for the calls that report would-block (EAGAIN)
C25_WouldBlockNotError ==
    [][/\ (c_phase = "writing" /\ c_last' = "write_again") =>
              /\ conn'.m_sockfd # -1
              /\ conn' = [conn EXCEPT !.ev = "OUT"]
       /\ ReadTransient =>
              \/ conn'.m_sockfd # -1
              \/ c_last' = "resp_fail"
              \/ conn'.m_read_idx >= MaxReadBuf]_vars

(***************************************************************************)
(* Claims about the server                                                 *)
(***************************************************************************)
\* the entries of the timer list whose user_data is slot f
TimersOf(f) == {i \in 1..Len(m_timer_lst) : m_timer_lst[i].fd = f}

TasksOf(f) ==
    Cardinality({i \in 1..Len(m_workqueue) : m_workqueue[i] = f})
    + Cardinality({w \in Workers : wk[w].pc # "wait" /\ wk[w].fd = f})

\* C2: at every instant at most one worker task for a connection slot is
\* queued or being executed.
C2_OneTaskPerConn == \A f \in Fds : TasksOf(f) <= 1

\* C4: once write() has reported a completely sent non-keep-alive response,
\* and the task that made the call has returned and the dispatcher is back
\* in epoll_wait, the connection is closed and its timer entry is removed.
C4_ClosedAfterWrite ==
    \A f \in Fds :
        (/\ h_wrote[f]
         /\ Idle
         /\ \A w \in Workers : ~(wk[w].pc # "wait" /\ wk[w].fd = f))
        => (/\ ~Live(f)
            /\ TimerPos(users_timer[f], m_timer_lst) = 0)

\* the timer entry users_timer[f].timer points to expires 3 * TIMESLOT after
\* the accept or the last activity
C9_ExpiryFollowsActivity ==
    \A f \in Fds : \A i \in 1..Len(m_timer_lst) :
        (Live(f) /\ m_timer_lst[i].id = users_timer[f])
            => m_timer_lst[i].expire = h_activity[f] + 3 * TIMESLOT

\* a tick closed a connection only at or after its expiry
C9_TickNotEarly == \A f \in Fds : h_closed[f].by = "tick" => h_closed[f].due

\* a connection past its expiry is open only while a tick is still to come
C9_FirstTickCloses ==
    \A f \in Fds :
        (Live(f) /\ now >= h_activity[f] + 3 * TIMESLOT) => (sigalrm \/ timeout)

C21_CloseOnOwnFlags ==
    [][(/\ d_pc = "wait"
        /\ users[d_fd].improv = 1
        /\ users[d_fd].timer_flag = 1
        /\ d_pc' = "epoll_wait")
       => TasksOf(d_fd) = 0]_vars

\* a step of a worker thread (threadpool::run)
WorkerStep == \E w \in Workers : wk'[w] # wk[w]

C26_TimerListDispatcherOnly == [][WorkerStep => m_timer_lst' = m_timer_lst]_vars


(***************************************************************************)
(* Claims about the per-IP connection counts                               *)
(***************************************************************************)
\* the live connections whose normalized IP is ip
LiveWithIp(ip) == {c \in Slots : ip_conn[c].m_sockfd # -1 /\ ip_conn[c].m_ip = ip}

RECURSIVE IpSum(_)
IpSum(S) == IF S = {} THEN 0
            ELSE LET ip == CHOOSE x \in S : TRUE
                 IN  m_ip_counts[ip] + IpSum(S \ {ip})

\* C13: whenever no close_conn call is half-way, m_ip_counts[ip] is the
\* number of live connections whose normalized IP is ip, a key is absent
\* exactly when that number is 0, and the counts add up to the number of
\* live connections.
C13_IpCountsMatch ==
    (\A c \in Slots : ~ip_close[c]) =>
        /\ \A ip \in DOMAIN m_ip_counts :
              /\ m_ip_counts[ip] >= 1
              /\ m_ip_counts[ip] = Cardinality(LiveWithIp(ip))
        /\ \A c \in Slots :
              ip_conn[c].m_sockfd # -1 => ip_conn[c].m_ip \in DOMAIN m_ip_counts
        /\ IpSum(DOMAIN m_ip_counts)
              = Cardinality({c \in Slots : ip_conn[c].m_sockfd # -1})


(***************************************************************************)
(* Claims about do_request and the uploads                                 *)
(***************************************************************************)
\* the stored file a response maps for its body, if it is under uploads
ServedUpload ==
    /\ site_last.code = "FILE_REQUEST"
    /\ Len(site_last.served) = 2
    /\ site_last.served[1] = <<"uploads">>

\* the last request asked for /uploads/<stored>
AskedStored ==
    /\ Len(site_last.url) >= 4
    /\ SubSeq(site_last.url, 1, 3) = <<"/", "uploads", "/">>
    /\ site_last.url \notin {<<"/", "uploads", "/", "delete">>,
                             <<"/", "uploads", "/", "list">>}

\* the URL holds ".." once its percent-encoded characters are decoded
DotDotAfterDecoding(url) ==
    LET Dec(t) == IF t = "%2e" THEN "." ELSE t
    IN  \E i \in 1..(Len(url) - 1) : Dec(url[i]) = "." /\ Dec(url[i + 1]) = "."

\* C14: a stored file under uploads is the body of a response only when
\* the request carries the cookie of the user whose list records it; a
\* request for /uploads/<stored> without a valid cookie is answered 302.
C14_UploadsOwnerOnly ==
    /\ ServedUpload =>
          /\ site_last.cookie_user \in SiteUsers
          /\ user_owns_upload(site_last.cookie_user, site_last.served[2])
    /\ (/\ AskedStored
        /\ ~DotDotAfterDecoding(site_last.url)
        /\ site_last.cookie_user \notin SiteUsers) => site_last.status = 302

\* the part of C14 the code keeps: under the path /uploads/<stored> itself
\* a stored file is served to its owner only
C14_CanonicalPathOwnerOnly ==
    (ServedUpload /\ AskedStored) =>
          /\ site_last.cookie_user \in SiteUsers
          /\ user_owns_upload(site_last.cookie_user, site_last.served[2])

\* the last request went to an endpoint that needs a session
AuthEndpoint ==
    \/ site_last.url \in {<<"/", "status.json">>, <<"/", "upload">>,
                          <<"/", "uploads", "/", "list">>,
                          <<"/", "uploads", "/", "delete">>}
    \/ AskedStored

C16_DotDotRejected ==
    DotDotAfterDecoding(site_last.url)
    => /\ site_last.status = 400
       /\ site_last.code = "BAD_REQUEST"
       /\ ~site_last.effect

\* a logged-in user's request under /uploads/ with a percent-encoded ".."
\* was answered 400 while stored files exist
C16_Witness ==
    /\ site_last.url = <<"/", "uploads", "/", ".", "%2e", "/", "index.html">>
    /\ site_last.cookie_user \in SiteUsers
    /\ up_files # {}
    /\ site_last.status = 400

\* the last request was a POST to /uploads/delete by a user whose list
\* recorded the named item
DeletedStored ==
    /\ site_last.url = <<"/", "uploads", "/", "delete">>
    /\ site_last.method = "POST"
    /\ site_last.owned

\* what C20 says holds after the delete
RoundTripDone ==
    /\ ~user_owns_upload(site_last.cookie_user, site_last.target)
    /\ site_last.target \notin up_files
    /\ do_request_site("GET", <<"/", "uploads", "/">> \o site_last.target,
                       <<[name |-> "ws_user", value |-> site_last.cookie_user]>>,
                       [kind |-> "none", value |-> <<>>]).status = 404
    /\ site_last.others

\* C20: after a user has uploaded a file and asked for the stored item to be
\* deleted, that user's list has no record of it, the uploads directory has
\* no such file, a GET of /uploads/<stored> by that user is answered 404,
\* and every other record is as it was.
C20_UploadDeleteRoundTrip == DeletedStored => RoundTripDone

\* the part of C20 the code keeps: it holds whenever the delete request
\* was answered 200
C20_AcceptedDelete == (DeletedStored /\ site_last.status = 200) => RoundTripDone

(***************************************************************************)
(* Claims about the timer list                                             *)
(***************************************************************************)
\* the entries reached from `from` by following the field `dir`
RECURSIVE Follow(_, _, _)
Follow(from, dir, k) ==
    IF from = 0 \/ k = 0 THEN <<>>
    ELSE <<from>> \o Follow(IF dir = "next" THEN tl_nodes[from].next
                                            ELSE tl_nodes[from].prev,
                            dir, k - 1)

LinkList == Follow(tl_head, "next", MaxNodes + 1)
BackList == Follow(tl_tail, "prev", MaxNodes + 1)

Reverse(s) == [i \in 1..Len(s) |-> s[Len(s) + 1 - i]]

\* ascending expiry from head to tail
LinkSorted ==
    \A i, j \in 1..Len(LinkList) :
        i < j => tl_nodes[LinkList[i]].expire <= tl_nodes[LinkList[j]].expire

\* head and tail are both NULL or both entries of the list, head without a
\* predecessor and tail without a successor, and the two walks agree
LinksConsistent ==
    /\ (tl_head = 0) = (tl_tail = 0)
    /\ tl_head # 0 => tl_nodes[tl_head].prev = 0
    /\ tl_tail # 0 => (tl_nodes[tl_tail].st = "in" /\ tl_nodes[tl_tail].next = 0)
    /\ LinkList = Reverse(BackList)
    /\ {LinkList[i] : i \in 1..Len(LinkList)} = {t \in Nodes : tl_nodes[t].st = "in"}

\* C27: after any sequence of add_timer, adjust_timer (expiry only moved
\* later), del_timer and tick, the list is sorted by ascending expiry and
\* its links are consistent: head has no predecessor, tail has no successor
\* and the walk by next from head meets the same entries as the walk by
\* prev from tail.
C27_SortedAndLinked == LinkSorted /\ LinksConsistent

\* the same while the list holds at least one entry
C27_SortedAndLinkedNonEmpty == tl_head # 0 => (LinkSorted /\ LinksConsistent)

\* the entries of s whose expire (before the step) satisfies the test
Expiring(s, cur)  == SelectSeq(s, LAMBDA t : tl_nodes[t].expire <= cur)
Remaining(s, cur) == SelectSeq(s, LAMBDA t : tl_nodes[t].expire > cur)

\* C28: tick() at time now removes exactly the entries with expire <= now:
\* it calls the callback of each of them once, in ascending expiry order,
\* unlinks them, and leaves the entries with expire > now in the list in
\* their previous order.
C28_TickRemovesExpired ==
    [][tl_last' = "tick" =>
          /\ tl_fired' = Expiring(LinkList, tl_now')
          /\ LinkList' = Remaining(LinkList, tl_now')
          /\ \A i, j \in 1..Len(tl_fired') :
                 i < j => /\ tl_fired'[i] # tl_fired'[j]
                          /\ tl_nodes[tl_fired'[i]].expire
                                 <= tl_nodes[tl_fired'[j]].expire
          /\ \A i \in 1..Len(tl_fired') : tl_nodes'[tl_fired'[i]].st = "free"]_vars

\* a tick after time 0 has called the callbacks of two entries and left a
\* later entry in the list
C28_Witness ==
    /\ tl_last = "tick"
    /\ Len(tl_fired) = 2
    /\ Len(LinkList) = 1
    /\ tl_nodes[LinkList[1]].expire > tl_now
    /\ tl_now > 0

(***************************************************************************)
(* Claims about the listener and the live-connection count                 *)
(***************************************************************************)
\* C31: under edge-triggered listening one listener event drains the whole
\* backlog: when the dispatcher is back from dealclientdata, a connection
\* is still waiting in the backlog only if a further listener event is due.
C31_BacklogDrained ==
    (ac_mode = 1 /\ ac_pc = "idle" /\ ac_backlog > 0) => ac_event

\* the accept loop is left with connections still waiting only after the
\* busy reply at the cap or after an accept() error other than would-block
C31_LoopLeftAtCapOrError ==
    [][(ac_pc = "accept" /\ ac_pc' = "idle" /\ ac_backlog' > 0)
         => (m_user_count >= MAX_FD \/ ac_backlog' = ac_backlog)]_vars

\* the dispatcher and the worker are between two operations
Quiescent == ac_pc \in {"start", "idle", "accept"} /\ ac_wk.pc = "idle"

\* C35: every update of m_user_count is made by a thread that holds
\* m_ip_lock, and between operations the count equals the number of open
\* connections.
C35_CountGuardedAndExact ==
    /\ [][m_user_count' # m_user_count
            => ac_lock = (IF ac_wk' # ac_wk THEN "worker" ELSE "dispatcher")]_vars
    /\ [](Quiescent => m_user_count = Cardinality(ac_open))

\* C38: every descriptor used as index of users[] and users_timer[] is
\* below MAX_FD.
C38_IndexBelowMaxFd == ac_index < MAX_FD

\* a connection is initialised only while the count is below the cap
C38_CountBelowCapAtAccept ==
    [][ac_pc' = "init_locked" /\ ac_pc # "init_locked" => m_user_count < MAX_FD]_vars

(***************************************************************************)
(* Claims about the alarm and the signal pipe                              *)
(***************************************************************************)
\* C32: while the server is not stopping, an alarm is pending, a SIGALRM
\* byte waits in the pipe or timeout is set; a batch ends with a tick
\* exactly when a SIGALRM was drained, and the tick re-arms the alarm; so
\* ticks recur forever unless the server stops.
C32_TicksRecur ==
    /\ []((sg_pc # "exit" /\ ~ sg_stop) => (sg_alarm \/ HasByte("SIGALRM") \/ sg_timeout))
    /\ [][(sg_pc = "batch" /\ sg_pc' # "batch")
            => /\ (sg_last' = "tick") = sg_timeout
               /\ (sg_last' = "tick") => (sg_alarm' /\ ~ sg_timeout')]_vars
    /\ []<>(sg_last = "tick" \/ sg_stop \/ sg_pc = "exit")

\* a tick has happened after a drained SIGALRM, the alarm is armed again
\* and the server is not stopping
C32_Witness ==
    /\ sg_last = "tick"
    /\ sg_alarm
    /\ ~ sg_stop
    /\ sg_pc = "epoll_wait"

(***************************************************************************)
(* Claims about the threadpool                                             *)
(***************************************************************************)
SemInStep ==
    /\ tp_hist.posts + (IF tp_app.pc = "post" THEN 1 ELSE 0) = tp_hist.accepted
    /\ tp_sem <= Len(tp_queue)
    /\ \A w \in Threads : tp_pc[w] = "locked" => tp_queue # <<>>
    /\ \A t \in 1..MaxTasks : tp_ran[t] <= 1
    /\ \A w \in Threads : tp_pc[w] = "run" => tp_lock # w

\* C33: the semaphore is posted once per accepted append and never for a
\* rejected one, its value never exceeds the queue length, a thread that
\* returned from the wait finds a request in the queue, no request is run
\* twice and no thread runs a request while it holds the queue mutex.
C33_SemaphoreInStep == SemInStep

\* the same while no sem_wait was interrupted
C33_InStepUninterrupted == ~ tp_hist.intr => SemInStep

(***************************************************************************)
(* Claims about registration                                               *)
(***************************************************************************)
\* a thread's last registration has run to its end
RegDone(t) == reg_th[t].pc = "idle" /\ reg_th[t].name # ""

\* C34: a registration whose INSERT failed or whose name was present
\* leaves the users map unchanged and renders the error page, and of two
\* concurrent registrations of the same new name exactly one succeeds.
C34_TableOnlyOnSuccess ==
    /\ \A t \in RegThreads :
          (RegDone(t) /\ (reg_th[t].found \/ reg_th[t].res # 0))
             => (~ reg_th[t].ins /\ reg_th[t].page = "/pages/registerError.html")
    /\ \A t, u \in RegThreads :
          (t # u /\ RegDone(t) /\ RegDone(u) /\ reg_th[t].name = reg_th[u].name
           /\ ~ reg_th[t].found /\ ~ reg_th[u].found)
             => (reg_th[t].page = "/pages/log.html") # (reg_th[u].page = "/pages/log.html")

\* the page follows the INSERT's result: the log-in page only for a name
\* that was absent and an INSERT that returned 0; and a name found in the
\* map changes nothing
C34_PageFollowsResult ==
    \A t \in RegThreads : RegDone(t) =>
        /\ (reg_th[t].page = "/pages/log.html") = (~ reg_th[t].found /\ reg_th[t].res = 0)
        /\ reg_th[t].found => ~ reg_th[t].ins

(***************************************************************************)
(* Claims about the read buffer's size                                     *)
(***************************************************************************)
\* C36: while a connection lives, the size of its read buffer never
\* decreases, the keep-alive reset included.
C36_ReadBufferNeverShrinks ==
    [][(conn.m_sockfd # -1 /\ conn'.m_sockfd # -1) => conn'.size >= conn.size]_cvars

\* the size decreases only in the reset after a response was sent, and
\* then to READ_BUFFER_SIZE; while one request is read and answered it
\* only grows, up to the cap
C36_ShrinksOnlyInReset ==
    [][(conn.m_sockfd # -1 /\ conn'.m_sockfd # -1 /\ conn'.size < conn.size)
         => (c_phase = "writing" /\ conn'.size = READ_BUFFER_SIZE /\ conn'.m_read_idx = 0)]_cvars

(***************************************************************************)
(* Claims about the body region                                            *)
(***************************************************************************)
Acquired == 1..(bd_next - 1)

\* C37: every region acquired for a response is released exactly once
\* when the response ends, however it ends: a region not yet released
\* belongs to the pending response of the open connection, and no region
\* is released twice.
C37_RegionReleasedOnce ==
    \A r \in Acquired :
        \/ bd_rel[r] = 1
        \/ bd_rel[r] = 0 /\ bd_open /\ bd_conn.m_file_address = r
                         /\ bd_conn.bytes_to_send > 0

\* no region is released twice, and a complete send or a write error
\* releases the region of the response it ends
C37_ReleasedAfterWrite ==
    /\ [](\A r \in Acquired : bd_rel[r] <= 1)
    /\ [][(bd_last' \in {"write_done", "write_error"} /\ bd_conn.m_file_address > 0)
            => bd_rel'[bd_conn.m_file_address] = 1]_vars

(***************************************************************************)
(* Claims about connections that wait for nothing                          *)
(***************************************************************************)
\* the timer list holds an entry whose cb_func closes slot f
HasTimer(f) == \E i \in 1..Len(m_timer_lst) : m_timer_lst[i].fd = f

\* the connection of slot f is open with no armed event, no task queued or
\* running and no handler call of the dispatcher in progress
Parked(f) ==
    /\ Live(f)
    /\ users[f].ev = "NONE"
    /\ TasksOf(f) = 0
    /\ ~ (d_pc = "wait" /\ d_fd = f)

\* an entry for slot f expires within the time the model lets pass
ExpiresInTime(f) ==
    \E i \in 1..Len(m_timer_lst) : m_timer_lst[i].fd = f /\ m_timer_lst[i].expire <= MaxTime

Copies(n) ==
    Cardinality({i \in 1..Len(lg_file) : lg_file[i] = n})
    + Cardinality({i \in 1..Len(lg_queue) : lg_queue[i] = n})
    + (IF lg_drain = n THEN 1 ELSE 0)

\* the write_log call of line n has returned
Logged(n) == n < lg_next /\ \A t \in LogThreads : lg_th[t].line # n

\* C40: the line of every write_log call that has returned is in the
\* file or on its way to it exactly once: never dropped, never twice.
C40_EveryLineOnce == \A n \in 1..MaxLines : Logged(n) => Copies(n) = 1

\* no line is written or queued twice, and a line is missing only when
\* its push met a full queue
C40_NeverTwice ==
    /\ [](\A n \in 1..MaxLines : Copies(n) <= 1)
    /\ [][\A n \in 1..MaxLines :
            (Logged(n)' /\ Copies(n)' = 0 /\ ~ (Logged(n) /\ Copies(n) = 0))
               => (lg_pushed' = [ret |-> FALSE, line |-> n])]_vars

=============================================================================
